---- MODULE Spec2Model ----
(***************************************************************************)
(* A model of the interactive code of the Motia documentation site:        *)
(*   - components/VideoPlayer.tsx      (specification Spec)                *)
(*   - the VideoShowcase component     (specification SpecYouTube)         *)
(*   - app/docs/[[...slug]]/page.tsx   (specification SpecPage)            *)
(* Each handler of a component is one action.  The browser (media element, *)
(* timers, Fullscreen API) is the environment and has actions of its own.  *)
(***************************************************************************)
EXTENDS Integers, Sequences, FiniteSets, TLC

\* ------------------------------------------------------------------ bounds
\* The video's duration, in time units (currentTime ranges over 0..Duration).
Duration == 4
\* At most this many 'Video Pause' events are let through by the model.
MaxPauses == 2
\* At most this many toggleFullscreen calls are awaiting their promise.
MaxFsCalls == 2
\* At most this many Fullscreen API rejections happen.
MaxFsErrors == 2
\* Where the history counters nEnded and crossed stop counting.
MaxCount == 2
\* (MaxIdLen, the length of the generated video ids, is defined with them.)

VARIABLES
  \* ---- VideoPlayer: React state (useState)
  isPlaying, isPaused, isMuted, isFullscreen, progress, showControls,
  \* ---- VideoPlayer: refs (useRef)
  hasTrackedPlay, trackedMilestones, controlsTimeout,
  \* ---- VideoPlayer: the pending 100 ms callback of handlePlayClick
  playTimer,
  \* ---- the <video> element behind videoRef (mounted iff isPlaying)
  vPaused, vMuted, vTime, vAutoplaying, endedPending, mediaError,
  \* ---- the document's Fullscreen API
  fsElement, fsCalls, fsEventPending, consoleErrors, fsUncaught, rejectedBefore,
  \* ---- analytics: calls made to the SDK, pushes made to window.dataLayer
  plausible, dataLayer,
  \* ---- VideoPlayer: inputs (is videoPath a loadable video; does window.dataLayer exist)
  videoOk, hasDataLayer,
  \* ---- which controls the user works in this session (see Sessions)
  session,
  \* ---- history: ended events handled, times progress crossed 25 upwards
  nEnded, crossed,
  \* ---- VideoPlayer: the tracking hook it is wired to, whether it is mounted,
  \* ---- and the milestones in the order their events were fired
  tracking, mounted, progressOrder,
  \* ---- VideoShowcase: the url of a VideoCard and what the card rendered
  url, urlParts, videoId, card, embedUrl,
  \* ---- docs route: the request and what became of it
  content, slug, handler, pc, page, fieldsRead, outcome,
  \* ---- tracking hook: does the SDK call throw; the calls made to the SDK, the
  \* ---- errors that reached the hook's caller, the last function called
  sdkFails, sdkCalls, thrown, lastCall,
  \* ---- ViewOptions: its props, the page origin, is there a window; its items
  markdownUrl, githubUrl, origin, hasWindow, items,
  \* ---- LLMCopyButton: the module's cache and, per instance, the url, the
  \* ---- loading flag, the handler's position; fetches made, clipboard writes,
  \* ---- the response of the fetch in flight
  cache, buttonUrl, isLoading, copyPc, fetches, clipboard, response,
  \* ---- middleware: the host and pathname requested, the response to the
  \* ---- request, the redirects followed
  host, pathname, mwResponse, hops,
  \* ---- getMDXComponents: its argument and the map it returned
  components, mdxComponents

playerVars == <<isPlaying, isPaused, isMuted, isFullscreen, progress, showControls,
                hasTrackedPlay, trackedMilestones, controlsTimeout, playTimer,
                vPaused, vMuted, vTime, vAutoplaying, endedPending, mediaError,
                fsElement, fsCalls, fsEventPending, consoleErrors, fsUncaught,
                rejectedBefore, plausible, dataLayer, videoOk, hasDataLayer,
                session, nEnded, crossed, tracking, mounted, progressOrder>>
cardVars == <<url, urlParts, videoId, card, embedUrl>>
pageVars == <<content, slug, handler, pc, page, fieldsRead, outcome>>
hookVars == <<sdkFails, sdkCalls, thrown, lastCall>>
linkVars == <<markdownUrl, githubUrl, origin, hasWindow, items>>
copyVars == <<cache, buttonUrl, isLoading, copyPc, fetches, clipboard, response>>
mwVars == <<host, pathname, mwResponse, hops>>
mdxVars == <<components, mdxComponents>>
vars == <<playerVars, cardVars, pageVars, hookVars, linkVars, copyVars, mwVars,
          mdxVars>>

Min(a, b) == IF a < b THEN a ELSE b

\* ================================================================ VideoPlayer

\* const milestones = [25, 50, 75]
milestones_Descending == <<75, 50, 25>>
milestones == <<25, 50, 75>>

\* The analytics events of the tracking hook, and the GTM events pushed with them.
VideoPlay == <<"Video Play", 0>>
VideoPause == <<"Video Pause", 0>>
VideoComplete == <<"Video Complete", 0>>
VideoProgress(m) == <<"Video Progress", m>>
AnalyticsEvents == {VideoPlay, VideoPause, VideoComplete} \cup
                   {VideoProgress(milestones[i]) : i \in DOMAIN milestones}
GtmStart == <<"video_start", 0>>
GtmPause == <<"video_pause", 0>>
GtmComplete == <<"video_complete", 0>>
GtmProgress(m) == <<"video_progress", m>>
GtmEvents == {GtmStart, GtmPause, GtmComplete} \cup
             {GtmProgress(milestones[i]) : i \in DOMAIN milestones}

\* trackEvent(eventName, props): one call to the analytics SDK with the name.
trackEvent(calls, event) == [calls EXCEPT ![event] = @ + 1]

\* The video wrappers of the tracking hook: one trackEvent call each.
trackVideoPlay(calls) == trackEvent(calls, VideoPlay)
trackVideoPause_Once(calls) ==
  IF calls[VideoPause] >= 1 THEN calls ELSE trackEvent(calls, VideoPause)
trackVideoPause(calls) == trackEvent(calls, VideoPause)
trackVideoProgress(calls, m) == trackEvent(calls, VideoProgress(m))
trackVideoComplete(calls) == trackEvent(calls, VideoComplete)

\* The tracking functions the real hook returns (it returns the SDK's own
\* plausible function besides), and what the no-op variant returns.
TrackingFunctions ==
  {"trackEvent", "trackDownload", "trackSignup", "trackPurchase", "track404Error",
   "trackVideoPlay", "trackVideoPause", "trackVideoProgress", "trackVideoComplete"}
NoopHook ==
  [f \in {"trackEvent", "trackDownload", "trackSignup", "trackPurchase",
           "track404Error", "trackVideoPlay", "trackVideoPause",
           "trackVideoProgress", "trackVideoComplete"} |-> "noop"]

\* The no-op variant of the hook: const noop = (..._args) => {}
noop_CallsSdk(calls) == trackEvent(calls, VideoPlay)
noop(calls) == calls

\* const { trackVideoPlay, trackVideoPause, trackVideoProgress,
\*         trackVideoComplete } = usePlausibleTracking(): the functions of the
\* hook the component is wired to.
hookVideoPlay(calls) ==
  IF tracking = "noop" THEN noop(calls) ELSE trackVideoPlay(calls)
hookVideoPause(calls) ==
  IF tracking = "noop" THEN noop(calls) ELSE trackVideoPause(calls)
hookVideoProgress(calls, m) ==
  IF tracking = "noop" THEN noop(calls) ELSE trackVideoProgress(calls, m)
hookVideoComplete(calls) ==
  IF tracking = "noop" THEN noop(calls) ELSE trackVideoComplete(calls)

\* pushToDataLayer: pushes only when window.dataLayer exists.
pushToDataLayer(layer, exists, event) ==
  IF exists THEN [layer EXCEPT ![event] = @ + 1] ELSE layer

\* if (!hasTrackedPlayRef.current)
ShouldTrackPlay_Always(tracked) == TRUE
ShouldTrackPlay(tracked) == ~tracked

\* if (currentProgress >= milestone && !trackedMilestonesRef.current.has(milestone))
MilestoneDue_NoDedup(p, m, tracked) == p >= m
MilestoneDue(p, m, tracked) == p >= m /\ m \notin tracked

\* if (!trackedMilestonesRef.current.has(100))
CompleteDue_Always(tracked) == TRUE
CompleteDue(tracked) == 100 \notin tracked

\* const currentProgress = (currentTime / duration) * 100, rounded down: the
\* comparisons with the whole-number milestones are the same as for the quotient.
currentProgress(t) == (t * 100) \div Duration

\* {!isPlaying ? <button poster> : <div video + controls>}: there is no third branch.
View_WithErrorBranch(playing, ok, err) ==
  IF ~ok /\ err THEN "error" ELSE IF ~playing THEN "poster" ELSE "video"
View(playing, ok, err) == IF ~playing THEN "poster" ELSE "video"

\* HTMLMediaElement.play(): rejected when the source failed to load, otherwise
\* the element is no longer paused, and an ended video restarts from 0.
PlayPaused(err, paused) == IF err THEN paused ELSE FALSE
PlayTime(err, t) == IF ~err /\ t = Duration THEN 0 ELSE t

InitPlayer ==
  /\ isPlaying = FALSE /\ isPaused = FALSE /\ isMuted = FALSE
  /\ isFullscreen = FALSE /\ progress = 0 /\ showControls = TRUE
  /\ hasTrackedPlay = FALSE /\ trackedMilestones = {} /\ controlsTimeout = "none"
  /\ playTimer = FALSE
  /\ vPaused = TRUE /\ vMuted = FALSE /\ vTime = 0 /\ vAutoplaying = TRUE
  /\ endedPending = FALSE /\ mediaError = FALSE
  /\ fsElement = "none" /\ fsCalls = <<>> /\ fsEventPending = FALSE
  /\ consoleErrors = 0 /\ fsUncaught = 0 /\ rejectedBefore = <<>>
  /\ plausible = [e \in AnalyticsEvents |-> 0]
  /\ dataLayer = [e \in GtmEvents |-> 0]
  /\ nEnded = 0 /\ crossed = 0
  /\ mounted = TRUE /\ progressOrder = <<>>

\* The poster button's onClick: mounts the video and schedules the 100 ms callback.
handlePlayClick ==
  /\ mounted
  /\ ~isPlaying
  /\ isPlaying' = TRUE
  /\ playTimer' = TRUE
  /\ UNCHANGED <<isPaused, isMuted, isFullscreen, progress, showControls,
                 hasTrackedPlay, trackedMilestones, controlsTimeout, vPaused,
                 vMuted, vTime, vAutoplaying, endedPending, mediaError,
                 fsElement, fsCalls, fsEventPending, consoleErrors,
                 fsUncaught, rejectedBefore, plausible, dataLayer, videoOk,
                 hasDataLayer, session, nEnded, crossed, tracking, mounted,
                 progressOrder, cardVars, pageVars, hookVars, linkVars, copyVars,
                 mwVars, mdxVars>>

\* The callback of setTimeout(..., 100) in handlePlayClick.
PlayTimerFires ==
  /\ playTimer
  /\ playTimer' = FALSE
  /\ IF mounted
       THEN /\ vPaused' = PlayPaused(mediaError, vPaused)
            /\ vTime' = PlayTime(mediaError, vTime)
            /\ vAutoplaying' = FALSE
       ELSE UNCHANGED <<vPaused, vTime, vAutoplaying>>
  /\ IF ShouldTrackPlay(hasTrackedPlay)
       THEN /\ plausible' = hookVideoPlay(plausible)
            /\ dataLayer' = pushToDataLayer(dataLayer, hasDataLayer, GtmStart)
            /\ hasTrackedPlay' = TRUE
       ELSE UNCHANGED <<plausible, dataLayer, hasTrackedPlay>>
  /\ UNCHANGED <<isPlaying, isPaused, isMuted, isFullscreen, progress,
                 showControls, trackedMilestones, controlsTimeout, vMuted,
                 endedPending, mediaError, fsElement, fsCalls, fsEventPending,
                 consoleErrors, fsUncaught, rejectedBefore, videoOk,
                 hasDataLayer, session, nEnded, crossed, tracking, mounted,
                 progressOrder, cardVars, pageVars, hookVars, linkVars, copyVars,
                 mwVars, mdxVars>>

\* onClick of the video, of the play/pause button and of the centre play button.
togglePlayPause ==
  /\ mounted
  /\ session \in {"watch", "controls"}
  /\ isPlaying
  /\ IF vPaused
       THEN /\ vPaused' = PlayPaused(mediaError, vPaused)
            /\ vTime' = PlayTime(mediaError, vTime)
            /\ isPaused' = FALSE
            /\ IF ShouldTrackPlay(hasTrackedPlay)
                 THEN /\ plausible' = hookVideoPlay(plausible)
                      /\ dataLayer' = pushToDataLayer(dataLayer, hasDataLayer, GtmStart)
                      /\ hasTrackedPlay' = TRUE
                 ELSE UNCHANGED <<plausible, dataLayer, hasTrackedPlay>>
       ELSE /\ plausible[VideoPause] < MaxPauses
            /\ dataLayer[GtmPause] < MaxPauses
            /\ vPaused' = TRUE
            /\ vTime' = vTime
            /\ isPaused' = TRUE
            /\ plausible' = hookVideoPause(plausible)
            /\ dataLayer' = pushToDataLayer(dataLayer, hasDataLayer, GtmPause)
            /\ UNCHANGED hasTrackedPlay
  /\ vAutoplaying' = FALSE
  /\ UNCHANGED <<isPlaying, isMuted, isFullscreen, progress, showControls,
                 trackedMilestones, controlsTimeout, playTimer, vMuted,
                 endedPending, mediaError, fsElement, fsCalls, fsEventPending,
                 consoleErrors, fsUncaught, rejectedBefore, videoOk,
                 hasDataLayer, session, nEnded, crossed, tracking, mounted,
                 progressOrder, cardVars, pageVars, hookVars, linkVars, copyVars,
                 mwVars, mdxVars>>

\* onClick of the mute button.
toggleMute ==
  /\ mounted
  /\ session = "controls"
  /\ isPlaying
  /\ vMuted' = ~vMuted
  /\ isMuted' = vMuted'
  /\ UNCHANGED <<isPlaying, isPaused, isFullscreen, progress, showControls,
                 hasTrackedPlay, trackedMilestones, controlsTimeout,
                 playTimer, vPaused, vTime, vAutoplaying, endedPending,
                 mediaError, fsElement, fsCalls, fsEventPending,
                 consoleErrors, fsUncaught, rejectedBefore, plausible,
                 dataLayer, videoOk, hasDataLayer, session, nEnded, crossed, tracking, mounted,
                 progressOrder, cardVars, pageVars, hookVars, linkVars, copyVars,
                 mwVars, mdxVars>>

\* The loop of handleTimeUpdate over milestones[i..], in order.
RECURSIVE MilestoneLoop(_, _, _)
MilestoneLoop(i, p, acc) ==
  IF i > Len(milestones) THEN acc
  ELSE LET m == milestones[i] IN
       IF MilestoneDue(p, m, acc.tracked)
         THEN MilestoneLoop(i + 1, p,
                [tracked |-> acc.tracked \cup {m},
                 calls |-> hookVideoProgress(acc.calls, m),
                 order |-> Append(acc.order, m),
                 layer |-> pushToDataLayer(acc.layer, hasDataLayer, GtmProgress(m))])
         ELSE MilestoneLoop(i + 1, p, acc)

\* onTimeUpdate of the video: the browser fires it while playing and after a seek.
handleTimeUpdate ==
  /\ mounted
  /\ session = "watch"
  /\ isPlaying /\ videoOk
  /\ LET p == currentProgress(vTime)
         r == MilestoneLoop(1, p, [tracked |-> trackedMilestones,
                                   calls |-> plausible, layer |-> dataLayer,
                                   order |-> progressOrder])
     IN /\ progress' = p
        /\ trackedMilestones' = r.tracked
        /\ progressOrder' = r.order
        /\ plausible' = r.calls
        /\ dataLayer' = r.layer
        /\ crossed' = IF progress < 25 /\ p >= 25 THEN Min(crossed + 1, MaxCount)
                      ELSE crossed
  /\ UNCHANGED <<isPlaying, isPaused, isMuted, isFullscreen, showControls,
                 hasTrackedPlay, controlsTimeout, playTimer, vPaused, vMuted,
                 vTime, vAutoplaying, endedPending, mediaError, fsElement,
                 fsCalls, fsEventPending, consoleErrors, fsUncaught,
                 rejectedBefore, videoOk, hasDataLayer, session, nEnded, tracking, mounted,
                 cardVars, pageVars, hookVars, linkVars, copyVars, mwVars, mdxVars>>

\* onEnded of the video, were it to bring the poster back.
handleVideoEnded_ShowsPoster ==
  /\ mounted
  /\ session = "watch"
  /\ isPlaying /\ endedPending
  /\ endedPending' = FALSE
  /\ isPaused' = TRUE
  /\ isPlaying' = FALSE
  /\ nEnded' = Min(nEnded + 1, MaxCount)
  /\ IF CompleteDue(trackedMilestones)
       THEN /\ trackedMilestones' = trackedMilestones \cup {100}
            /\ plausible' = hookVideoComplete(plausible)
            /\ dataLayer' = pushToDataLayer(dataLayer, hasDataLayer, GtmComplete)
       ELSE UNCHANGED <<trackedMilestones, plausible, dataLayer>>
  /\ UNCHANGED <<isMuted, isFullscreen, progress, showControls,
                 hasTrackedPlay, controlsTimeout, playTimer, vPaused, vMuted,
                 vTime, vAutoplaying, mediaError, fsElement, fsCalls,
                 fsEventPending, consoleErrors, fsUncaught, rejectedBefore,
                 videoOk, hasDataLayer, crossed, session, tracking, mounted,
                 progressOrder, cardVars, pageVars, hookVars, linkVars, copyVars,
                 mwVars, mdxVars>>

\* onEnded of the video.
handleVideoEnded ==
  /\ mounted
  /\ session = "watch"
  /\ isPlaying /\ endedPending
  /\ endedPending' = FALSE
  /\ isPaused' = TRUE
  /\ nEnded' = Min(nEnded + 1, MaxCount)
  /\ IF CompleteDue(trackedMilestones)
       THEN /\ trackedMilestones' = trackedMilestones \cup {100}
            /\ plausible' = hookVideoComplete(plausible)
            /\ dataLayer' = pushToDataLayer(dataLayer, hasDataLayer, GtmComplete)
       ELSE UNCHANGED <<trackedMilestones, plausible, dataLayer>>
  /\ UNCHANGED <<isPlaying, isMuted, isFullscreen, progress, showControls,
                 hasTrackedPlay, controlsTimeout, playTimer, vPaused, vMuted,
                 vTime, vAutoplaying, mediaError, fsElement, fsCalls,
                 fsEventPending, consoleErrors, fsUncaught, rejectedBefore,
                 videoOk, hasDataLayer, crossed, session, tracking, mounted,
                 progressOrder, cardVars, pageVars, hookVars, linkVars, copyVars,
                 mwVars, mdxVars>>

\* onClick of the progress bar: currentTime = clickPosition * duration.  A seek
\* of a playing video to its end ends playback.
handleProgressClick(t) ==
  /\ mounted
  /\ session = "watch"
  /\ isPlaying /\ videoOk
  /\ vTime' = t
  /\ IF t = Duration /\ ~vPaused
       THEN vPaused' = TRUE /\ endedPending' = TRUE
       ELSE UNCHANGED <<vPaused, endedPending>>
  /\ UNCHANGED <<isPlaying, isPaused, isMuted, isFullscreen, progress,
                 showControls, hasTrackedPlay, trackedMilestones,
                 controlsTimeout, playTimer, vMuted, vAutoplaying, mediaError,
                 fsElement, fsCalls, fsEventPending, consoleErrors,
                 fsUncaught, rejectedBefore, plausible, dataLayer, videoOk,
                 hasDataLayer, session, nEnded, crossed, tracking, mounted,
                 progressOrder, cardVars, pageVars, hookVars, linkVars, copyVars,
                 mwVars, mdxVars>>

\* onMouseMove of the container: the timer's callback closes over the isPaused
\* of the render in which the handler was created.
handleMouseMove ==
  /\ mounted
  /\ session = "controls"
  /\ showControls' = TRUE
  /\ controlsTimeout' = IF isPaused THEN "paused" ELSE "playing"
  /\ UNCHANGED <<isPlaying, isPaused, isMuted, isFullscreen, progress,
                 hasTrackedPlay, trackedMilestones, playTimer, vPaused,
                 vMuted, vTime, vAutoplaying, endedPending, mediaError,
                 fsElement, fsCalls, fsEventPending, consoleErrors,
                 fsUncaught, rejectedBefore, plausible, dataLayer, videoOk,
                 hasDataLayer, session, nEnded, crossed, tracking, mounted,
                 progressOrder, cardVars, pageVars, hookVars, linkVars, copyVars,
                 mwVars, mdxVars>>

\* The callback of setTimeout(..., 2500) in handleMouseMove.
ControlsTimeoutFires ==
  /\ mounted
  /\ session = "controls"
  /\ controlsTimeout # "none"
  /\ controlsTimeout' = "none"
  /\ showControls' = IF controlsTimeout = "playing" THEN FALSE ELSE showControls
  /\ UNCHANGED <<isPlaying, isPaused, isMuted, isFullscreen, progress,
                 hasTrackedPlay, trackedMilestones, playTimer, vPaused,
                 vMuted, vTime, vAutoplaying, endedPending, mediaError,
                 fsElement, fsCalls, fsEventPending, consoleErrors,
                 fsUncaught, rejectedBefore, plausible, dataLayer, videoOk,
                 hasDataLayer, session, nEnded, crossed, tracking, mounted,
                 progressOrder, cardVars, pageVars, hookVars, linkVars, copyVars,
                 mwVars, mdxVars>>

\* onMouseLeave of the container.
handleMouseLeave ==
  /\ mounted
  /\ session = "controls"
  /\ showControls' = IF ~isPaused THEN FALSE ELSE showControls
  /\ UNCHANGED <<isPlaying, isPaused, isMuted, isFullscreen, progress,
                 hasTrackedPlay, trackedMilestones, controlsTimeout,
                 playTimer, vPaused, vMuted, vTime, vAutoplaying,
                 endedPending, mediaError, fsElement, fsCalls, fsEventPending,
                 consoleErrors, fsUncaught, rejectedBefore, plausible,
                 dataLayer, videoOk, hasDataLayer, session, nEnded, crossed, tracking, mounted,
                 progressOrder, cardVars, pageVars, hookVars, linkVars, copyVars,
                 mwVars, mdxVars>>

\* toggleFullscreen up to its await: the call the handler makes is decided by
\* document.fullscreenElement at the time of the click (containerRef is set for
\* as long as the component is mounted).  "before" remembers isFullscreen at the
\* time of the call.
toggleFullscreen ==
  /\ mounted
  /\ session = "fullscreen"
  /\ isPlaying
  /\ Len(fsCalls) < MaxFsCalls
  /\ fsCalls' = Append(fsCalls,
                  [kind |-> IF fsElement = "none" THEN "request" ELSE "exit",
                   before |-> isFullscreen])
  /\ UNCHANGED <<isPlaying, isPaused, isMuted, isFullscreen, progress,
                 showControls, hasTrackedPlay, trackedMilestones,
                 controlsTimeout, playTimer, vPaused, vMuted, vTime,
                 vAutoplaying, endedPending, mediaError, fsElement,
                 fsEventPending, consoleErrors, fsUncaught, rejectedBefore,
                 plausible, dataLayer, videoOk, hasDataLayer, session, nEnded,
                 crossed, tracking, mounted,
                 progressOrder, cardVars, pageVars, hookVars, linkVars, copyVars,
                 mwVars, mdxVars>>

RemoveAt(s, i) == SubSeq(s, 1, i - 1) \o SubSeq(s, i + 1, Len(s))

\* toggleFullscreen after its await, the promise fulfilled: the document's
\* fullscreen element has changed and the handler sets isFullscreen.
FullscreenResolves(i) ==
  /\ mounted
  /\ session = "fullscreen"
  /\ i \in DOMAIN fsCalls
  /\ IF fsCalls[i].kind = "request"
       THEN fsElement' = "self" /\ isFullscreen' = TRUE
       ELSE fsElement' = "none" /\ isFullscreen' = FALSE
  /\ fsEventPending' = (fsEventPending \/ fsElement' # fsElement)
  /\ fsCalls' = RemoveAt(fsCalls, i)
  /\ UNCHANGED <<isPlaying, isPaused, isMuted, progress, showControls,
                 hasTrackedPlay, trackedMilestones, controlsTimeout,
                 playTimer, vPaused, vMuted, vTime, vAutoplaying,
                 endedPending, mediaError, consoleErrors, fsUncaught,
                 rejectedBefore, plausible, dataLayer, videoOk, hasDataLayer,
                 session, nEnded, crossed, tracking, mounted,
                 progressOrder, cardVars, pageVars, hookVars, linkVars, copyVars,
                 mwVars, mdxVars>>

\* try { ... } catch (err) { console.error('Fullscreen error:', err) }: the
\* rejection is caught, and the catch block sets no state.
FullscreenErrorCaught == TRUE
CatchFullscreenError_Resets(fs) == FALSE
CatchFullscreenError(fs) == fs

\* toggleFullscreen after its await, the promise rejected.
FullscreenRejects(i) ==
  /\ mounted
  /\ session = "fullscreen"
  /\ i \in DOMAIN fsCalls
  /\ consoleErrors + fsUncaught < MaxFsErrors
  /\ fsCalls' = RemoveAt(fsCalls, i)
  /\ rejectedBefore' = <<fsCalls[i].before>>
  /\ IF FullscreenErrorCaught
       THEN /\ consoleErrors' = consoleErrors + 1
            /\ isFullscreen' = CatchFullscreenError(isFullscreen)
            /\ UNCHANGED fsUncaught
       ELSE /\ fsUncaught' = fsUncaught + 1
            /\ UNCHANGED <<consoleErrors, isFullscreen>>
  /\ UNCHANGED <<isPlaying, isPaused, isMuted, progress, showControls,
                 hasTrackedPlay, trackedMilestones, controlsTimeout,
                 playTimer, vPaused, vMuted, vTime, vAutoplaying,
                 endedPending, mediaError, fsElement, fsEventPending,
                 plausible, dataLayer, videoOk, hasDataLayer, session, nEnded,
                 crossed, tracking, mounted,
                 progressOrder, cardVars, pageVars, hookVars, linkVars, copyVars,
                 mwVars, mdxVars>>

\* The listener of the document's fullscreenchange event.
handleFullscreenChange ==
  /\ mounted
  /\ session = "fullscreen"
  /\ fsEventPending
  /\ fsEventPending' = FALSE
  /\ isFullscreen' = (fsElement # "none")
  /\ UNCHANGED <<isPlaying, isPaused, isMuted, progress, showControls,
                 hasTrackedPlay, trackedMilestones, controlsTimeout,
                 playTimer, vPaused, vMuted, vTime, vAutoplaying,
                 endedPending, mediaError, fsElement, fsCalls, consoleErrors,
                 fsUncaught, rejectedBefore, plausible, dataLayer, videoOk,
                 hasDataLayer, session, nEnded, crossed, tracking, mounted,
                 progressOrder, cardVars, pageVars, hookVars, linkVars, copyVars,
                 mwVars, mdxVars>>

\* ---- the browser

\* The user leaves fullscreen with the Escape key.
EscapeKey ==
  /\ mounted
  /\ session = "fullscreen"
  /\ fsElement # "none"
  /\ fsElement' = "none"
  /\ fsEventPending' = TRUE
  /\ UNCHANGED <<isPlaying, isPaused, isMuted, isFullscreen, progress,
                 showControls, hasTrackedPlay, trackedMilestones,
                 controlsTimeout, playTimer, vPaused, vMuted, vTime,
                 vAutoplaying, endedPending, mediaError, fsCalls,
                 consoleErrors, fsUncaught, rejectedBefore, plausible,
                 dataLayer, videoOk, hasDataLayer, session, nEnded, crossed, tracking, mounted,
                 progressOrder, cardVars, pageVars, hookVars, linkVars, copyVars,
                 mwVars, mdxVars>>

\* Another element of the page, such as the container of another VideoPlayer,
\* becomes the document's fullscreen element.
OtherEntersFullscreen ==
  /\ mounted
  /\ session = "fullscreen"
  /\ fsElement # "other"
  /\ fsElement' = "other"
  /\ fsEventPending' = TRUE
  /\ UNCHANGED <<isPlaying, isPaused, isMuted, isFullscreen, progress,
                 showControls, hasTrackedPlay, trackedMilestones,
                 controlsTimeout, playTimer, vPaused, vMuted, vTime,
                 vAutoplaying, endedPending, mediaError, fsCalls,
                 consoleErrors, fsUncaught, rejectedBefore, plausible,
                 dataLayer, videoOk, hasDataLayer, session, nEnded, crossed,
                 tracking, mounted, progressOrder, cardVars, pageVars,
                 hookVars, linkVars, copyVars, mwVars, mdxVars>>

\* The component is unmounted: the cleanup of the effect removes the
\* fullscreenchange listener and clears the controls timer; the timer of
\* handlePlayClick is not cleared.  A fullscreen container that leaves the
\* document ends fullscreen.
Unmount ==
  /\ mounted
  /\ mounted' = FALSE
  /\ controlsTimeout' = "none"
  /\ fsElement' = IF fsElement = "self" THEN "none" ELSE fsElement
  /\ UNCHANGED <<isPlaying, isPaused, isMuted, isFullscreen, progress,
                 showControls, hasTrackedPlay, trackedMilestones, playTimer,
                 vPaused, vMuted, vTime, vAutoplaying, endedPending,
                 mediaError, fsCalls, fsEventPending, consoleErrors,
                 fsUncaught, rejectedBefore, plausible, dataLayer, videoOk,
                 hasDataLayer, session, nEnded, crossed, tracking,
                 progressOrder, cardVars, pageVars, hookVars, linkVars,
                 copyVars, mwVars, mdxVars>>

\* <video autoPlay>: playback starts by itself once data has arrived, unless
\* play() or pause() was called before.  Started at the end of the video (the
\* user has sought there), it ends at once.
AutoplayStarts ==
  /\ mounted
  /\ isPlaying /\ videoOk /\ vAutoplaying /\ vPaused
  /\ vAutoplaying' = FALSE
  /\ IF vTime = Duration
       THEN vPaused' = TRUE /\ endedPending' = TRUE
       ELSE vPaused' = FALSE /\ UNCHANGED endedPending
  /\ UNCHANGED <<isPlaying, isPaused, isMuted, isFullscreen, progress,
                 showControls, hasTrackedPlay, trackedMilestones,
                 controlsTimeout, playTimer, vMuted, vTime,
                 mediaError, fsElement, fsCalls, fsEventPending,
                 consoleErrors, fsUncaught, rejectedBefore, plausible,
                 dataLayer, videoOk, hasDataLayer, session, nEnded, crossed, tracking, mounted,
                 progressOrder, cardVars, pageVars, hookVars, linkVars, copyVars,
                 mwVars, mdxVars>>

\* <source src={videoPath}>: a missing or invalid video fails to load.  The
\* component has no onError handler.
MediaLoadFails ==
  /\ mounted
  /\ isPlaying /\ ~videoOk /\ ~mediaError
  /\ mediaError' = TRUE
  /\ UNCHANGED <<isPlaying, isPaused, isMuted, isFullscreen, progress,
                 showControls, hasTrackedPlay, trackedMilestones,
                 controlsTimeout, playTimer, vPaused, vMuted, vTime,
                 vAutoplaying, endedPending, fsElement, fsCalls,
                 fsEventPending, consoleErrors, fsUncaught, rejectedBefore,
                 plausible, dataLayer, videoOk, hasDataLayer, session, nEnded,
                 crossed, tracking, mounted,
                 progressOrder, cardVars, pageVars, hookVars, linkVars, copyVars,
                 mwVars, mdxVars>>

\* Playback moves currentTime forward; at the end the element pauses itself and
\* an ended event is queued.
PlaybackAdvances(t) ==
  /\ mounted
  /\ session = "watch"
  /\ isPlaying /\ videoOk /\ ~vPaused
  /\ t > vTime
  /\ vTime' = t
  /\ IF t = Duration
       THEN vPaused' = TRUE /\ endedPending' = TRUE
       ELSE UNCHANGED <<vPaused, endedPending>>
  /\ UNCHANGED <<isPlaying, isPaused, isMuted, isFullscreen, progress,
                 showControls, hasTrackedPlay, trackedMilestones,
                 controlsTimeout, playTimer, vMuted, vAutoplaying, mediaError,
                 fsElement, fsCalls, fsEventPending, consoleErrors,
                 fsUncaught, rejectedBefore, plausible, dataLayer, videoOk,
                 hasDataLayer, session, nEnded, crossed, tracking, mounted,
                 progressOrder, cardVars, pageVars, hookVars, linkVars, copyVars,
                 mwVars, mdxVars>>

\* ============================================================== VideoShowcase
\* Strings are sequences of one-character strings.

\* The literal parts of the two patterns of extractYouTubeId.
LitWatchV ==
  <<"y", "o", "u", "t", "u", "b", "e", ".", "c", "o", "m", "/", "w", "a", "t", "c", "h",
    "?", "v", "=">>
LitShort == <<"y", "o", "u", "t", "u", ".", "b", "e", "/">>
LitEmbed ==
  <<"y", "o", "u", "t", "u", "b", "e", ".", "c", "o", "m", "/", "e", "m", "b", "e", "d",
    "/">>
LitWatch ==
  <<"y", "o", "u", "t", "u", "b", "e", ".", "c", "o", "m", "/", "w", "a", "t", "c", "h",
    "?">>
LitVEq == <<"v", "=">>
EmbedBase ==
  <<"h", "t", "t", "p", "s", ":", "/", "/", "w", "w", "w", ".", "y", "o", "u", "t", "u",
    "b", "e", ".", "c", "o", "m", "/", "e", "m", "b", "e", "d", "/">>

\* (?:youtube\.com\/watch\?v=|youtu\.be\/|youtube\.com\/embed\/), in this order
Alternatives_AnyHost ==
  <<<<"w", "a", "t", "c", "h", "?", "v", "=">>, LitShort, LitEmbed>>
Alternatives == <<LitWatchV, LitShort, LitEmbed>>

\* [^&\n?#]: the characters that end the captured id
StopChars_NoQuery == {"&", "\n", "#"}
StopChars == {"&", "\n", "?", "#"}

\* The literal lit stands in s at position i.
MatchesAt(s, i, lit) ==
  /\ i >= 1 /\ i + Len(lit) - 1 <= Len(s)
  /\ \A k \in 1..Len(lit) : s[i + k - 1] = lit[k]

\* ([^&\n?#]+) from position j: the longest run of id characters (greedy, and
\* nothing follows the group in either pattern), or none when s[j] ends an id.
RunEnd(s, j) ==
  CHOOSE e \in (j - 1)..Len(s) :
    /\ \A k \in j..e : s[k] \notin StopChars
    /\ e = Len(s) \/ s[e + 1] \in StopChars
CaptureAt(s, j) == SubSeq(s, j, RunEnd(s, j))

\* The first pattern at position i: the alternatives are tried in order.
Alt1At(s, i) ==
  {a \in DOMAIN Alternatives :
     /\ MatchesAt(s, i, Alternatives[a])
     /\ CaptureAt(s, i + Len(Alternatives[a])) # <<>>}
Pattern1(s) ==
  LET hits == {i \in 1..Len(s) : Alt1At(s, i) # {}} IN
  IF hits = {} THEN <<>>
  ELSE LET i == CHOOSE x \in hits : \A y \in hits : x <= y
           a == CHOOSE x \in Alt1At(s, i) : \A y \in Alt1At(s, i) : x <= y
       IN <<CaptureAt(s, i + Len(Alternatives[a]))>>

\* The second pattern, /youtube\.com\/watch\?.*v=([^&\n?#]+)/, at position i:
\* ".*" is greedy and does not cross a line end, so the last "v=" of the line
\* that an id character follows is the one taken.
VEqAfter(s, i) ==
  {j \in (i + Len(LitWatch))..Len(s) :
     /\ MatchesAt(s, j, LitVEq)
     /\ CaptureAt(s, j + Len(LitVEq)) # <<>>
     /\ \A k \in (i + Len(LitWatch))..(j - 1) : s[k] # "\n"}
Pattern2(s) ==
  LET hits == {i \in 1..Len(s) : MatchesAt(s, i, LitWatch) /\ VEqAfter(s, i) # {}} IN
  IF hits = {} THEN <<>>
  ELSE LET i == CHOOSE x \in hits : \A y \in hits : x <= y
           j == CHOOSE x \in VEqAfter(s, i) : \A y \in VEqAfter(s, i) : x >= y
       IN <<CaptureAt(s, j + Len(LitVEq))>>

\* extractYouTubeId: the first pattern that matches gives the id; <<>> is null,
\* <<id>> the id.
extractYouTubeId(s) ==
  IF Pattern1(s) # <<>> THEN Pattern1(s)
  ELSE IF Pattern2(s) # <<>> THEN Pattern2(s)
  ELSE <<>>

\* ---- the urls the cards are given: prefix, format, id and what follows it
PrefixNone == <<>>
PrefixHttps == <<"h", "t", "t", "p", "s", ":", "/", "/">>
PrefixWww == <<"h", "t", "t", "p", "s", ":", "/", "/", "w", "w", "w", ".">>
PrefixMobile == <<"h", "t", "t", "p", ":", "/", "/", "m", ".">>
PrefixMalformed == <<"h", "h", "t", "t", "p", "s", ":", "/", "/", "w", "w", "w", ".">>
PrefixOtherHost == <<"h", "t", "t", "p", "s", ":", "/", "/", "n", "o", "t">>
ValidPrefixes == {PrefixNone, PrefixHttps, PrefixWww, PrefixMobile}
Prefixes == ValidPrefixes \cup {PrefixMalformed, PrefixOtherHost}

FormWatchList ==
  <<"y", "o", "u", "t", "u", "b", "e", ".", "c", "o", "m", "/", "w", "a", "t", "c", "h",
    "?", "l", "i", "s", "t", "=", "x", "&", "v", "=">>
FormShorts ==
  <<"y", "o", "u", "t", "u", "b", "e", ".", "c", "o", "m", "/", "s", "h", "o", "r", "t",
    "s", "/">>
FormVimeo == <<"v", "i", "m", "e", "o", ".", "c", "o", "m", "/">>
FormVimeoWatch ==
  <<"v", "i", "m", "e", "o", ".", "c", "o", "m", "/", "w", "a", "t", "c", "h", "?", "v",
    "=">>
\* The formats the claims name, the format only the second pattern takes, and
\* addresses that are no YouTube video.
NamedForms == {LitWatchV, LitShort, LitEmbed}
SupportedForms == NamedForms \cup {FormWatchList}
Forms == SupportedForms \cup {FormShorts, FormVimeo, FormVimeoWatch, <<>>}

\* Ids of up to MaxIdLen characters.
MaxIdLen == 3
IdChars == {"a", "X", "_"}
Ids == UNION {[1..n -> IdChars] : n \in 0..MaxIdLen}

TailTime == <<"&", "t", "=", "2", "8", "s">>
TailShare == <<"?", "s", "i", "=", "x">>
TailFragment == <<"#", "t", "=", "5">>
TailPath == <<"/", "x">>
TailSecondV == <<"&", "v", "=", "z", "z">>
\* What the claims let follow an id: nothing, or '&', '?' or '#' and more.
NamedTails == {<<>>, TailTime, TailShare, TailFragment, TailSecondV}
Tails == NamedTails \cup {TailPath}

Parts(pre, form, id, tail) == [prefix |-> pre, form |-> form, id |-> id, tail |-> tail]
GeneratedParts ==
  {Parts(pre, form, id, tail) : pre \in Prefixes, form \in Forms, id \in Ids, tail \in Tails}

\* The urls of the Video Showcase page and of the specification's examples.
IdExample == <<"a", "b", "c", "1", "2", "3", "X", "Y", "Z">>
IdDemo1 == <<"7", "K", "Z", "S", "0", "s", "y", "L", "r", "U", "o">>
TailDemo1 ==
  <<"?", "s", "i", "=", "i", "a", "h", "t", "z", "0", "G", "t", "a", "3", "g", "T", "D",
    "4", "k", "m">>
IdDemo6 == <<"n", "X", "7", "M", "l", "U", "h", "u", "p", "i", "g">>
IdDemo2 == <<"6", "E", "F", "T", "e", "m", "C", "9", "9", "A", "M">>
IdDemo8 == <<"J", "E", "C", "Q", "t", "M", "S", "B", "J", "y", "Y">>
NotAUrl == <<"n", "o", "t", "-", "a", "-", "u", "r", "l">>
ExampleParts ==
  {Parts(PrefixHttps, LitShort, IdExample, <<>>),
   Parts(PrefixHttps, LitShort, IdDemo1, TailDemo1),
   Parts(PrefixWww, LitWatchV, IdDemo6, TailTime),
   Parts(PrefixWww, LitWatchV, IdDemo2, <<>>),
   Parts(PrefixMalformed, LitWatchV, IdDemo8, <<>>),
   Parts(NotAUrl, <<>>, <<>>, <<>>)}

UrlOf(p) == p.prefix \o p.form \o p.id \o p.tail

\* A url of a format the code supports, well formed.
ValidYouTubeUrl(p) ==
  /\ p.prefix \in ValidPrefixes
  /\ p.form \in SupportedForms
  /\ p.id # <<>>

\* One of the literals stands somewhere in s.
Occurs(s, lit) == \E i \in 1..Len(s) : MatchesAt(s, i, lit)

NoCard == [kind |-> "none"]

InitCard ==
  /\ urlParts \in GeneratedParts \cup ExampleParts
  /\ url = UrlOf(urlParts)
  /\ videoId = <<>> /\ card = "none" /\ embedUrl = <<>>

\* VideoCard: the error block when no id was extracted, the iframe otherwise.
VideoCard ==
  /\ card = "none"
  /\ videoId' = extractYouTubeId(url)
  /\ IF videoId' = <<>>
       THEN card' = "error" /\ embedUrl' = <<>>
       ELSE card' = "iframe" /\ embedUrl' = EmbedBase \o videoId'[1]
  /\ UNCHANGED <<url, urlParts, playerVars, pageVars, hookVars, linkVars, copyVars,
                 mwVars, mdxVars>>

\* ---- the other components, at rest
CardIdle ==
  /\ url = <<>> /\ urlParts = NoCard /\ videoId = <<>> /\ card = "none"
  /\ embedUrl = <<>>
\* ================================================================= docs route
\* app/docs/[[...slug]]/page.tsx: Page and generateMetadata, statement by
\* statement.  params.slug is <<>> when undefined and <<segments>> otherwise.

Handlers == {"Page", "generateMetadata"}

\* The longest slug requested, in segments.
MaxSlugLen == 2
Segments == {"concepts", "workbench", "nope"}
Slugs == UNION {[1..n -> Segments] : n \in 0..MaxSlugLen}
Requests == {<<>>} \cup {<<sl>> : sl \in Slugs}

\* The content trees served: none, the index page alone, a small site.
Site == {<<>>, <<"concepts">>, <<"concepts", "workbench">>}
Contents == {{}, {<<>>}, Site}

\* source.getPage(params.slug): the page of the slug (undefined counts as the
\* empty slug), or undefined.  <<>> is undefined, <<page>> the page.
getPage(pages, sl) ==
  LET key == IF sl = <<>> THEN <<>> ELSE sl[1] IN
  IF key \in pages THEN <<[slugs |-> key]>> ELSE <<>>

\* if (!page)
PageMissing_Never(pg) == FALSE
PageMissing(pg) == pg = <<>>

\* The fields of page.data each handler reads after the guard: body, toc,
\* full, title, description in Page; title, description in generateMetadata.
FieldsOf(h) == IF h = "Page" THEN 5 ELSE 2

PageIdle ==
  /\ content = {} /\ slug = <<>> /\ handler = "none" /\ pc = "idle"
  /\ page = <<>>
  /\ fieldsRead = [h \in Handlers |-> 0]
  /\ outcome = [h \in Handlers |-> "none"]

InitPage ==
  /\ content \in Contents
  /\ slug \in Requests
  /\ handler \in Handlers
  /\ pc = "start"
  /\ page = <<>>
  /\ fieldsRead = [h \in Handlers |-> 0]
  /\ outcome = [h \in Handlers |-> "none"]

\* const page = source.getPage(params.slug)
GetPage ==
  /\ pc = "start"
  /\ page' = getPage(content, slug)
  /\ pc' = "guard"
  /\ UNCHANGED <<content, slug, handler, fieldsRead, outcome, playerVars, cardVars,
               hookVars, linkVars, copyVars, mwVars, mdxVars>>

\* if (!page) notFound(): notFound() throws, the framework answers 404.
NotFoundGuard ==
  /\ pc = "guard"
  /\ IF PageMissing(page)
       THEN /\ outcome' = [outcome EXCEPT ![handler] = "notFound"]
            /\ pc' = "done"
       ELSE /\ pc' = "read"
            /\ UNCHANGED outcome
  /\ UNCHANGED <<content, slug, handler, page, fieldsRead, playerVars, cardVars,
               hookVars, linkVars, copyVars, mwVars, mdxVars>>

\* The statements after the guard read page.data: a TypeError when page is
\* undefined, the rendered page or the metadata otherwise.
ReadPage ==
  /\ pc = "read"
  /\ pc' = "done"
  /\ IF page = <<>>
       THEN /\ outcome' = [outcome EXCEPT ![handler] = "crash"]
            /\ UNCHANGED fieldsRead
       ELSE /\ fieldsRead' = [fieldsRead EXCEPT ![handler] = FieldsOf(handler)]
            /\ outcome' = [outcome EXCEPT ![handler] =
                             IF handler = "Page" THEN "rendered" ELSE "metadata"]
  /\ UNCHANGED <<content, slug, handler, page, playerVars, cardVars,
               hookVars, linkVars, copyVars, mwVars, mdxVars>>

\* The framework calls both handlers for a request, in either order.
NextHandler ==
  /\ pc = "done"
  /\ \E h \in Handlers :
       /\ outcome[h] = "none"
       /\ handler' = h
  /\ pc' = "start"
  /\ page' = <<>>
  /\ UNCHANGED <<content, slug, fieldsRead, outcome, playerVars, cardVars,
               hookVars, linkVars, copyVars, mwVars, mdxVars>>

\* =============================================================== tracking hook
\* hooks/usePlausibleTracking.ts: trackEvent and the call it makes to the
\* analytics SDK, plausible(eventName, options).  An optional argument is <<>>
\* when it is not given and <<value>> when it is.

\* At most this many calls of trackEvent are made.
MaxHookCalls == 2

EventNames == {"Signup", "Custom Event"}
\* props: not given, the empty object, an object with a property.
PropsValues == {<<>>, <<<<>>>>, <<[method |-> "click"]>>}
RevenueValues == {<<>>, <<[amount |-> 5, currency |-> "USD"]>>}

\* const eventData = {}; if (props) eventData.props = props;
\* if (revenue) eventData.revenue = revenue  (an object is truthy, the empty
\* object too).
eventData_PropsOnly(props, revenue) ==
  [k \in {x \in {"props"} : props # <<>>} |-> props[1]]
eventData(props, revenue) ==
  [k \in {x \in {"props", "revenue"} :
            \/ x = "props" /\ props # <<>>
            \/ x = "revenue" /\ revenue # <<>>}
     |-> IF k = "props" THEN props[1] ELSE revenue[1]]

\* Object.keys(eventData).length > 0 ? eventData : undefined
sdkOptions(data) == IF DOMAIN data # {} THEN <<data>> ELSE <<>>

\* plausible(eventName, options): the call trackEvent makes.
plausibleCall(eventName, props, revenue) ==
  [name |-> eventName, options |-> sdkOptions(eventData(props, revenue))]

\* trackEvent has no try/catch: an error thrown by the SDK reaches its caller.
trackEventCatches == FALSE

HookIdle ==
  /\ sdkFails = FALSE /\ sdkCalls = <<>> /\ thrown = 0 /\ lastCall = <<>>

InitHook ==
  /\ sdkFails \in BOOLEAN
  /\ sdkCalls = <<>> /\ thrown = 0 /\ lastCall = <<>>

\* A call trackEvent(eventName, props, revenue) of the real hook.
CallTrackEvent(eventName, props, revenue) ==
  /\ Len(sdkCalls) < MaxHookCalls
  /\ lastCall' = <<[name |-> eventName, props |-> props, revenue |-> revenue]>>
  /\ sdkCalls' = Append(sdkCalls, plausibleCall(eventName, props, revenue))
  /\ thrown' = IF sdkFails /\ ~trackEventCatches THEN thrown + 1 ELSE thrown
  /\ UNCHANGED <<sdkFails, playerVars, cardVars, pageVars, linkVars, copyVars,
                 mwVars, mdxVars>>

\* ---- the convenience wrappers: the trackEvent call each one makes.  An
\* optional parameter is <<>> when it is not given and <<value>> otherwise.
Args(eventName, props, revenue) ==
  [name |-> eventName, props |-> props, revenue |-> revenue]

\* trackDownload(filename, method = 'click')
trackDownload(filename, method) ==
  Args("Download",
       <<[filename |-> filename,
          method |-> IF method = <<>> THEN "click" ELSE method[1]]>>, <<>>)

\* trackSignup(method?): method ? { method } : undefined
trackSignup(method) ==
  Args("Signup",
       IF method # <<>> /\ method[1] # "" THEN <<[method |-> method[1]]>> ELSE <<>>,
       <<>>)

\* trackPurchase(amount, currency = 'USD', productTitle?)
trackPurchase_CurrencyAsGiven(amount, currency, productTitle) ==
  Args("Purchase",
       IF productTitle # <<>> /\ productTitle[1] # ""
         THEN <<[productTitle |-> productTitle[1]]>> ELSE <<>>,
       <<[amount |-> amount, currency |-> currency]>>)
trackPurchase(amount, currency, productTitle) ==
  Args("Purchase",
       IF productTitle # <<>> /\ productTitle[1] # ""
         THEN <<[productTitle |-> productTitle[1]]>> ELSE <<>>,
       <<[amount |-> amount,
          currency |-> IF currency = <<>> THEN "USD" ELSE currency[1]]>>)

\* track404Error(path)
track404Error(path) == Args("404", <<[path |-> path]>>, <<>>)

\* The video wrappers, with the properties they send.
videoPlayArgs(v) ==
  Args("Video Play", <<[videoTitle |-> v.videoTitle, videoPath |-> v.videoPath]>>,
       <<>>)
videoPauseArgs(v) ==
  Args("Video Pause",
       <<[videoTitle |-> v.videoTitle, videoPath |-> v.videoPath,
          currentTime |-> v.currentTime, percentComplete |-> v.percentComplete]>>,
       <<>>)
videoProgressArgs(v, milestone) ==
  Args("Video Progress",
       <<[videoTitle |-> v.videoTitle, videoPath |-> v.videoPath,
          milestone |-> milestone, percentComplete |-> v.percentComplete]>>,
       <<>>)
videoCompleteArgs(v) ==
  Args("Video Complete",
       <<[videoTitle |-> v.videoTitle, videoPath |-> v.videoPath,
          duration |-> v.duration]>>,
       <<>>)

\* The arguments the wrappers are called with.
Filenames == {"motia-cli.zip"}
Methods == {<<>>, <<"">>, <<"link">>}
Amounts == {0, 49}
Currencies == {<<>>, <<"EUR">>}
ProductTitles == {<<>>, <<"">>, <<"Pro">>}
MissingPaths == {"/nope"}
MilestoneArgs == {25, 60}
VideoEvents ==
  {[videoTitle |-> <<>>, videoPath |-> "/demo.mp4", duration |-> <<>>,
    currentTime |-> <<>>, percentComplete |-> <<>>],
   [videoTitle |-> <<"Demo">>, videoPath |-> "/demo.mp4", duration |-> <<4>>,
    currentTime |-> <<2>>, percentComplete |-> <<50>>]}

\* A call of a wrapper: the one trackEvent call in its body.
CallWrapper(call) == CallTrackEvent(call.name, call.props, call.revenue)

\* ================================================================ ViewOptions
\* components/ai/page-actions.tsx: the links of the "Open" menu.  Strings are
\* sequences of one-character strings.

\* `Read ${fullMarkdownUrl}, I want to ask questions about it.`
PromptHead == <<"R", "e", "a", "d", " ">>
PromptTail ==
  <<",", " ", "I", " ", "w", "a", "n", "t", " ", "t", "o", " ", "a", "s", "k", " ", "q",
    "u", "e", "s", "t", "i", "o", "n", "s", " ", "a", "b", "o", "u", "t", " ", "i", "t",
    ".">>
\* typeof window !== 'undefined' ? new URL(...) : 'loading'
Loading == <<"l", "o", "a", "d", "i", "n", "g">>
\* The link templates.
ChatGptBase ==
  <<"h", "t", "t", "p", "s", ":", "/", "/", "c", "h", "a", "t", "g", "p", "t", ".", "c",
    "o", "m", "/", "?">>
ClaudeBase ==
  <<"h", "t", "t", "p", "s", ":", "/", "/", "c", "l", "a", "u", "d", "e", ".", "a", "i",
    "/", "n", "e", "w", "?">>
T3Base ==
  <<"h", "t", "t", "p", "s", ":", "/", "/", "t", "3", ".", "c", "h", "a", "t", "/", "n",
    "e", "w", "?">>
SciraBase ==
  <<"h", "t", "t", "p", "s", ":", "/", "/", "s", "c", "i", "r", "a", ".", "a", "i", "/",
    "?">>
KeyHints == <<"h", "i", "n", "t", "s">>
ValueSearch == <<"s", "e", "a", "r", "c", "h">>
KeyQ == <<"q">>
\* The page origins and the urls the component is given.
OriginSite == <<"h", "t", "t", "p", "s", ":", "/", "/", "m", ".", "d", "e", "v">>
OriginLocal ==
  <<"h", "t", "t", "p", ":", "/", "/", "l", "o", "c", "a", "l", "h", "o", "s", "t", ":",
    "3", "0", "0", "0">>
SchemeHttps == <<"h", "t", "t", "p", "s", ":", "/", "/">>
SchemeHttp == <<"h", "t", "t", "p", ":", "/", "/">>
AbsoluteMarkdownUrl ==
  <<"h", "t", "t", "p", "s", ":", "/", "/", "r", "a", "w", ".", "i", "o", "/", "a", ".",
    "m", "d", "x">>
RelativeMarkdownUrl == <<"d", "o", "c", "s", "/", "a", ".", "m", "d", "x">>
GithubFile ==
  <<"h", "t", "t", "p", "s", ":", "/", "/", "g", "i", "t", "h", "u", "b", ".", "c", "o",
    "m", "/", "M", "o", "t", "i", "a", "D", "e", "v", "/", "m", "o", "t", "i", "a", "/",
    "b", "l", "o", "b", "/", "m", "a", "i", "n", "/", "a", ".", "m", "d", "x">>
GithubQuery ==
  <<"h", "t", "t", "p", "s", ":", "/", "/", "g", "i", "t", "h", "u", "b", ".", "c", "o",
    "m", "/", "x", "?", "a", "=", "1", "&", "b", "=", "2">>
Origins == {OriginSite, OriginLocal}
GithubUrls == {GithubFile, GithubQuery}

\* Paths "/..." of up to MaxPathLen characters after the slash.
MaxPathLen == 2
PathChars == {"a", "&", " ", "+"}
Paths == {<<"/">> \o p : p \in UNION {[1..n -> PathChars] : n \in 0..MaxPathLen}}
MarkdownUrls == Paths \cup {AbsoluteMarkdownUrl, RelativeMarkdownUrl}

\* Concatenation of the strings of a sequence, sep between them.
RECURSIVE Join(_, _)
Join(parts, sep) ==
  IF parts = <<>> THEN <<>>
  ELSE IF Len(parts) = 1 THEN parts[1]
  ELSE Join(SubSeq(parts, 1, Len(parts) \div 2), sep) \o sep
         \o Join(SubSeq(parts, Len(parts) \div 2 + 1, Len(parts)), sep)

\* The position of the first c in s, 0 when there is none.
IndexOf(s, c) ==
  IF \E i \in 1..Len(s) : s[i] = c
    THEN CHOOSE i \in 1..Len(s) : s[i] = c /\ \A j \in 1..(i - 1) : s[j] # c
    ELSE 0

\* s cut at every c.
RECURSIVE Split(_, _)
Split(s, c) ==
  IF IndexOf(s, c) = 0 THEN <<s>>
  ELSE <<SubSeq(s, 1, IndexOf(s, c) - 1)>>
         \o Split(SubSeq(s, IndexOf(s, c) + 1, Len(s)), c)

StartsWith(s, pre) == Len(pre) <= Len(s) /\ SubSeq(s, 1, Len(pre)) = pre

\* The URL parser's encoding of a path: a space becomes %20; the other
\* characters of the paths here are kept.
PathEncodeChar(c) == IF c = " " THEN <<"%", "2", "0">> ELSE <<c>>
PathEncode(s) == Join([i \in 1..Len(s) |-> PathEncodeChar(s[i])], <<>>)

\* new URL(markdownUrl, window.location.origin), as a string: an absolute url
\* is itself, a path is put behind the origin.
NewUrl(u, base) ==
  IF StartsWith(u, SchemeHttps) \/ StartsWith(u, SchemeHttp) THEN PathEncode(u)
  ELSE IF StartsWith(u, <<"/">>) THEN base \o PathEncode(u)
  ELSE base \o <<"/">> \o PathEncode(u)

fullMarkdownUrl(u, base, window) == IF window THEN NewUrl(u, base) ELSE Loading

\* const q = `Read ${fullMarkdownUrl}, I want to ask questions about it.`
q(full) == PromptHead \o full \o PromptTail

\* URLSearchParams: the application/x-www-form-urlencoded serializer.  Letters,
\* digits and * - . _ are kept, a space becomes +, every other character its
\* percent-encoded byte.
FormEscapes ==
  [c \in {":", "/", ",", "&", "+", "%", "=", "?"} |->
     CASE c = ":" -> <<"%", "3", "A">>
       [] c = "/" -> <<"%", "2", "F">>
       [] c = "," -> <<"%", "2", "C">>
       [] c = "&" -> <<"%", "2", "6">>
       [] c = "+" -> <<"%", "2", "B">>
       [] c = "%" -> <<"%", "2", "5">>
       [] c = "=" -> <<"%", "3", "D">>
       [] c = "?" -> <<"%", "3", "F">>]
FormEncodeChar_KeepsAmpersand(c) ==
  IF c = " " THEN <<"+">>
  ELSE IF c \in DOMAIN FormEscapes \ {"&"} THEN FormEscapes[c]
  ELSE <<c>>
FormEncodeChar(c) ==
  IF c = " " THEN <<"+">>
  ELSE IF c \in DOMAIN FormEscapes THEN FormEscapes[c]
  ELSE <<c>>
FormEncode(s) == Join([i \in 1..Len(s) |-> FormEncodeChar(s[i])], <<>>)

\* `${new URLSearchParams({...})}`: name=value pairs joined by &.
URLSearchParams(pairs) ==
  Join([i \in 1..Len(pairs) |-> FormEncode(pairs[i][1]) \o <<"=">> \o FormEncode(pairs[i][2])],
       <<"&">>)

\* What the receiving site reads from a link: the form decoding of a string,
\* and the value of the parameter name in the query of href (<<>> when the
\* query has no such parameter, <<value>> otherwise).
\* The escape that starts at position i of s, if one does (no escape holds a
\* '%' behind its first character, so escapes never overlap).
EscapeAt(s, i) ==
  IF s[i] = "%" /\ i + 2 <= Len(s)
       /\ \E c \in DOMAIN FormEscapes : FormEscapes[c] = SubSeq(s, i, i + 2)
    THEN <<CHOOSE c \in DOMAIN FormEscapes : FormEscapes[c] = SubSeq(s, i, i + 2)>>
    ELSE <<>>
FormDecode(s) ==
  Join([i \in 1..Len(s) |->
          IF EscapeAt(s, i) # <<>> THEN EscapeAt(s, i)
          ELSE IF (i >= 2 /\ EscapeAt(s, i - 1) # <<>>)
                    \/ (i >= 3 /\ EscapeAt(s, i - 2) # <<>>) THEN <<>>
          ELSE IF s[i] = "+" THEN <<" ">>
          ELSE <<s[i]>>], <<>>)
QueryOf(href) ==
  IF IndexOf(href, "?") = 0 THEN <<>>
  ELSE SubSeq(href, IndexOf(href, "?") + 1, Len(href))
QueryParam(href, name) ==
  LET pairs == Split(QueryOf(href), "&")
      NameOf(p) == IF IndexOf(p, "=") = 0 THEN p ELSE SubSeq(p, 1, IndexOf(p, "=") - 1)
      ValueOf(p) == IF IndexOf(p, "=") = 0 THEN <<>>
                    ELSE SubSeq(p, IndexOf(p, "=") + 1, Len(p))
      hits == {i \in 1..Len(pairs) : FormDecode(NameOf(pairs[i])) = name}
  IN IF hits = {} THEN <<>>
     ELSE <<FormDecode(ValueOf(pairs[CHOOSE i \in hits : \A j \in hits : i <= j]))>>

\* The items of the menu, by title.
Titles == {"GitHub", "ChatGPT", "Claude", "T3 Chat", "Scira AI"}
ChatTitles == Titles \ {"GitHub"}
viewItems(md, gh, base, window) ==
  LET prompt == q(fullMarkdownUrl(md, base, window)) IN
  [t \in Titles |->
     CASE t = "GitHub" -> gh
       [] t = "ChatGPT" ->
            ChatGptBase \o URLSearchParams(<<<<KeyHints, ValueSearch>>, <<KeyQ, prompt>>>>)
       [] t = "Claude" -> ClaudeBase \o URLSearchParams(<<<<KeyQ, prompt>>>>)
       [] t = "T3 Chat" -> T3Base \o URLSearchParams(<<<<KeyQ, prompt>>>>)
       [] t = "Scira AI" -> SciraBase \o URLSearchParams(<<<<KeyQ, prompt>>>>)]

InitLinks ==
  /\ markdownUrl \in MarkdownUrls
  /\ githubUrl \in GithubUrls
  /\ origin \in Origins
  /\ hasWindow \in BOOLEAN
  /\ items = <<>>

\* A render of ViewOptions: useMemo computes the items.
ViewOptions ==
  /\ items = <<>>
  /\ items' = viewItems(markdownUrl, githubUrl, origin, hasWindow)
  /\ UNCHANGED <<markdownUrl, githubUrl, origin, hasWindow, playerVars, cardVars,
                 pageVars, hookVars, copyVars, mwVars, mdxVars>>

\* =============================================================== LLMCopyButton
\* components/ai/page-actions.tsx: the module's cache and the "Copy Markdown"
\* buttons of a page.

\* The buttons on the page.
Buttons == {"first", "second"}
\* At most this many fetches are made by one button.
MaxFetches == 2

\* The markdown urls and what the server answers for them (one page is empty).
CopyUrls == {"/docs/a.mdx", "/docs/b.mdx", "/docs/empty.mdx"}
contentOf(u) == IF u = "/docs/empty.mdx" THEN "" ELSE u
\* The page may be revised on the server between two requests.
Revised(u) == IF u = "/docs/a.mdx" THEN {"/docs/a.mdx, revised"} ELSE {}
\* The body of an answer with an error status (fetch resolves on any status).
ErrorBody == "404: This page could not be found."
\* What fetch(markdownUrl) may resolve with.
Responses(u) ==
  [ok : {TRUE}, body : {contentOf(u)} \cup Revised(u)]
    \cup {[ok |-> FALSE, body |-> ErrorBody]}

\* const cached = cache.get(markdownUrl); if (cached) ...: a hit is an entry
\* with a non-empty text.
cacheHit_Never(c, u) == FALSE
cacheHit(c, u) == u \in DOMAIN c /\ c[u] # ""

\* cache.set(markdownUrl, content)
cacheSet(c, u, text) == [x \in DOMAIN c \cup {u} |-> IF x = u THEN text ELSE c[x]]

InitCopy ==
  /\ cache = <<>>
  /\ buttonUrl \in [Buttons -> CopyUrls]
  /\ isLoading = [b \in Buttons |-> FALSE]
  /\ copyPc = [b \in Buttons |-> "idle"]
  /\ fetches = [b \in Buttons |-> 0]
  /\ clipboard = <<>>
  /\ response = [b \in Buttons |-> <<>>]

\* onClick of a button (disabled while isLoading) up to its await: the cached
\* text is written to the clipboard, or the loading flag is set and the fetch
\* is started.
LLMCopyButton(b) ==
  /\ copyPc[b] = "idle" /\ ~isLoading[b]
  /\ IF cacheHit(cache, buttonUrl[b])
       THEN /\ clipboard' = <<[by |-> b, text |-> cache[buttonUrl[b]]]>>
            /\ UNCHANGED <<isLoading, copyPc, fetches>>
       ELSE /\ fetches[b] < MaxFetches
            /\ isLoading' = [isLoading EXCEPT ![b] = TRUE]
            /\ copyPc' = [copyPc EXCEPT ![b] = "fetching"]
            /\ fetches' = [fetches EXCEPT ![b] = @ + 1]
            /\ UNCHANGED clipboard
  /\ UNCHANGED <<cache, buttonUrl, response, playerVars, cardVars, pageVars,
                 hookVars, linkVars, mwVars, mdxVars>>

\* fetch(markdownUrl).then(...): the text is put into the cache and handed to
\* the clipboard.
FetchResolves(b, res) ==
  /\ copyPc[b] = "fetching"
  /\ cache' = cacheSet(cache, buttonUrl[b], res.body)
  /\ response' = [response EXCEPT ![b] = <<res>>]
  /\ copyPc' = [copyPc EXCEPT ![b] = "writing"]
  /\ UNCHANGED <<buttonUrl, isLoading, fetches, clipboard, playerVars, cardVars,
                 pageVars, hookVars, linkVars, mwVars, mdxVars>>

\* The fetch fails: clipboard.write rejects, and finally resets the flag.
FetchFails(b) ==
  /\ copyPc[b] = "fetching"
  /\ copyPc' = [copyPc EXCEPT ![b] = "idle"]
  /\ isLoading' = [isLoading EXCEPT ![b] = FALSE]
  /\ UNCHANGED <<cache, buttonUrl, fetches, clipboard, response, playerVars,
                 cardVars, pageVars, hookVars, linkVars, mwVars, mdxVars>>

\* await navigator.clipboard.write(...) is fulfilled; finally resets the flag.
ClipboardWritten(b) ==
  /\ copyPc[b] = "writing"
  /\ clipboard' = <<[by |-> b, text |-> response[b][1].body]>>
  /\ response' = [response EXCEPT ![b] = <<>>]
  /\ copyPc' = [copyPc EXCEPT ![b] = "idle"]
  /\ isLoading' = [isLoading EXCEPT ![b] = FALSE]
  /\ UNCHANGED <<cache, buttonUrl, fetches, playerVars, cardVars, pageVars,
                 hookVars, linkVars, mwVars,
                 mdxVars>>

\* The clipboard refuses the write; finally resets the flag.
ClipboardRejects(b) ==
  /\ copyPc[b] = "writing"
  /\ copyPc' = [copyPc EXCEPT ![b] = "idle"]
  /\ isLoading' = [isLoading EXCEPT ![b] = FALSE]
  /\ response' = [response EXCEPT ![b] = <<>>]
  /\ UNCHANGED <<cache, buttonUrl, fetches, clipboard, playerVars, cardVars,
                 pageVars, hookVars, linkVars, mwVars, mdxVars>>

\* ---- the other components, at rest
LinkIdle ==
  /\ markdownUrl = <<>> /\ githubUrl = <<>> /\ origin = <<>>
  /\ hasWindow = FALSE /\ items = <<>>
MdxExtension == <<".", "m", "d", "x">>
\* NextResponse.redirect(..., 301)
RedirectStatus == 301
\* The host the site is served from.
SiteHost == <<"s", "i", "t", "e">>

\* The request pathnames: a slash followed by at most MaxPieces pieces, without
\* a repeated slash.
MaxPieces == 4
Pieces == {<<"/">>, <<"a">>, <<".", "m">>, <<"d", "x">>, MdxExtension}
RequestPaths ==
  {p \in {<<"/">> \o Join(ps, <<>>) :
            ps \in UNION {[1..n -> Pieces] : n \in 0..MaxPieces}} :
     ~Occurs(p, <<"/", "/">>)}

\* String.prototype.endsWith
endsWith(s, suffix) ==
  Len(suffix) <= Len(s) /\ SubSeq(s, Len(s) - Len(suffix) + 1, Len(s)) = suffix

\* String.prototype.replace with a string pattern: the first occurrence of the
\* pattern is replaced, the later ones are kept.
replace_Identity(s, pattern, by) == s
replace(s, pattern, by) ==
  IF ~Occurs(s, pattern) THEN s
  ELSE LET i == CHOOSE i \in 1..Len(s) :
                  /\ MatchesAt(s, i, pattern)
                  /\ \A j \in 1..(i - 1) : ~MatchesAt(s, j, pattern)
       IN SubSeq(s, 1, i - 1) \o by \o SubSeq(s, i + Len(pattern), Len(s))

\* new URL(cleanPath, request.url): a path that starts with two slashes is a
\* network-path reference, whose first segment is the host; any other path is
\* a path on the host of the request.
NewURL(path, requestHost) ==
  IF StartsWith(path, <<"/", "/">>)
    THEN LET rest == SubSeq(path, 3, Len(path))
             cut == IndexOf(rest, "/")
         IN IF cut = 0 THEN [host |-> rest, pathname |-> <<"/">>]
            ELSE [host |-> SubSeq(rest, 1, cut - 1),
                  pathname |-> SubSeq(rest, cut, Len(rest))]
    ELSE [host |-> requestHost, pathname |-> path]

\* middleware(request): the response to a request.
middleware(p, requestHost) ==
  IF endsWith(p, MdxExtension)
    THEN LET cleanPath == replace(p, MdxExtension, <<>>)
         IN IF NewURL(cleanPath, requestHost).host = <<>>
              THEN [kind |-> "TypeError"]
              ELSE [kind |-> "redirect", status |-> RedirectStatus,
                    location |-> NewURL(cleanPath, requestHost)]
    ELSE [kind |-> "next"]

InitMiddleware ==
  /\ host = SiteHost
  /\ pathname \in RequestPaths
  /\ mwResponse = [kind |-> "none"]
  /\ hops = 0

\* A request is answered by the middleware.
Middleware ==
  /\ pathname # <<>> /\ mwResponse.kind = "none"
  /\ mwResponse' = middleware(pathname, host)
  /\ UNCHANGED <<host, pathname, hops, playerVars, cardVars, pageVars, hookVars,
                 linkVars, copyVars, mdxVars>>

\* The client follows a redirect: it requests the location it was given.
FollowRedirect ==
  /\ mwResponse.kind = "redirect"
  /\ host' = mwResponse.location.host
  /\ pathname' = mwResponse.location.pathname
  /\ mwResponse' = [kind |-> "none"]
  /\ hops' = hops + 1
  /\ UNCHANGED <<playerVars, cardVars, pageVars, hookVars, linkVars, copyVars,
                 mdxVars>>

\* ========================================================== getMDXComponents
\* The component registry: a map from tag to component, each component named
\* here by the place it comes from.

\* { ...a, ...b }: the properties of b over those of a.
Spread(a, b) ==
  [k \in DOMAIN a \cup DOMAIN b |-> IF k \in DOMAIN b THEN b[k] ELSE a[k]]

\* fumadocs-ui/mdx: the framework's defaults.
defaultMdxComponents ==
  [k \in {"a", "img", "pre", "h1", "table", "Card", "Cards", "Callout"} |-> "default"]
\* img, pre, Tabs, Tab of the registry itself.
ownComponents == [k \in {"img", "pre", "Tabs", "Tab"} |-> "registry"]
\* import * as Twoslash from 'fumadocs-twoslash/ui'
Twoslash == [k \in {"Popup", "PopupContent", "PopupTrigger"} |-> "twoslash"]

\* The tags a caller supplies, each with a component or with undefined.
CallerTags == {"pre", "img", "Tabs", "a", "Popup", "Card", "Step"}
CallerMaps ==
  UNION {[tags -> {"caller", "undefined"}] : tags \in SUBSET CallerTags}

\* getMDXComponents(components?)
getMDXComponents_CallerFirst(c) ==
  Spread(Spread(Spread(IF c = <<>> THEN <<>> ELSE c[1], defaultMdxComponents),
                ownComponents), Twoslash)
getMDXComponents(c) ==
  Spread(Spread(Spread(defaultMdxComponents, ownComponents), Twoslash),
         IF c = <<>> THEN <<>> ELSE c[1])

InitRegistry ==
  /\ components \in {<<>>} \cup {<<c>> : c \in CallerMaps}
  /\ mdxComponents = <<>>

\* A page renders: it calls getMDXComponents with its components.
GetMDXComponents ==
  /\ mdxComponents = <<>>
  /\ mdxComponents' = <<getMDXComponents(components)>>
  /\ UNCHANGED <<components, playerVars, cardVars, pageVars, hookVars, linkVars,
                 copyVars, mwVars>>

MiddlewareIdle ==
  /\ host = <<>> /\ pathname = <<>> /\ mwResponse = [kind |-> "none"] /\ hops = 0
RegistryIdle ==
  /\ components = <<>> /\ mdxComponents = <<>>
CopyIdle ==
  /\ cache = <<>> /\ buttonUrl = <<>> /\ isLoading = <<>> /\ copyPc = <<>>
  /\ fetches = <<>> /\ clipboard = <<>> /\ response = <<>>

\* The handlers of the player fall into groups that write disjoint state:
\* playback position and its analytics ("watch"), the controls overlay and the
\* mute button ("controls"), and the Fullscreen API ("fullscreen").  In one
\* session the user works the handlers of one group, besides the poster click,
\* the video's own start and the unmount, which every session has; play/pause
\* belongs to the sessions whose handlers read what it writes.
Sessions == {"watch", "controls", "fullscreen"}

Init ==
  /\ InitPlayer
  /\ videoOk \in BOOLEAN
  /\ hasDataLayer \in BOOLEAN
  /\ session \in Sessions
  /\ tracking = "real"
  /\ CardIdle /\ PageIdle /\ HookIdle /\ LinkIdle /\ CopyIdle
  /\ MiddlewareIdle /\ RegistryIdle

NextPlayer ==
  \/ handlePlayClick
  \/ PlayTimerFires
  \/ togglePlayPause
  \/ AutoplayStarts
  \/ MediaLoadFails
  \/ toggleMute
  \/ handleTimeUpdate
  \/ handleVideoEnded
  \/ \E t \in 0..Duration : handleProgressClick(t)
  \/ handleMouseMove
  \/ ControlsTimeoutFires
  \/ handleMouseLeave
  \/ \E t \in 0..Duration : PlaybackAdvances(t)
  \/ toggleFullscreen
  \/ \E i \in 1..MaxFsCalls : FullscreenResolves(i)
  \/ \E i \in 1..MaxFsCalls : FullscreenRejects(i)
  \/ handleFullscreenChange
  \/ EscapeKey
  \/ OtherEntersFullscreen
  \/ Unmount

Next == NextPlayer

Spec == Init /\ [][Next]_vars

\* The Video Showcase: one card per url.
InitYouTube ==
  /\ InitCard
  /\ InitPlayer /\ videoOk = TRUE /\ hasDataLayer = FALSE /\ session = "watch"
  /\ tracking = "real"
  /\ PageIdle /\ HookIdle /\ LinkIdle /\ CopyIdle
  /\ MiddlewareIdle /\ RegistryIdle
NextYouTube == VideoCard
SpecYouTube == InitYouTube /\ [][NextYouTube]_vars

\* The docs route: one request, both handlers.
InitRoute ==
  /\ InitPage
  /\ InitPlayer /\ videoOk = TRUE /\ hasDataLayer = FALSE /\ session = "watch"
  /\ tracking = "real"
  /\ CardIdle /\ HookIdle /\ LinkIdle /\ CopyIdle
  /\ MiddlewareIdle /\ RegistryIdle
NextRoute ==
  \/ GetPage
  \/ NotFoundGuard
  \/ ReadPage
  \/ NextHandler
SpecPage == InitRoute /\ [][NextRoute]_vars

\* The tracking hook: calls of trackEvent.
InitTracking ==
  /\ InitHook
  /\ InitPlayer /\ videoOk = TRUE /\ hasDataLayer = FALSE /\ session = "watch"
  /\ tracking = "real"
  /\ CardIdle /\ PageIdle /\ LinkIdle /\ CopyIdle
  /\ MiddlewareIdle /\ RegistryIdle
NextTracking ==
  \E eventName \in EventNames, props \in PropsValues, revenue \in RevenueValues :
    CallTrackEvent(eventName, props, revenue)
SpecHook == InitTracking /\ [][NextTracking]_vars

\* The "Open" menu of a docs page.
InitViewOptions ==
  /\ InitLinks
  /\ InitPlayer /\ videoOk = TRUE /\ hasDataLayer = FALSE /\ session = "watch"
  /\ tracking = "real"
  /\ CardIdle /\ PageIdle /\ HookIdle /\ CopyIdle
  /\ MiddlewareIdle /\ RegistryIdle
NextViewOptions == ViewOptions
SpecLinks == InitViewOptions /\ [][NextViewOptions]_vars

\* The "Copy Markdown" buttons of a page.
InitButtons ==
  /\ InitCopy
  /\ InitPlayer /\ videoOk = TRUE /\ hasDataLayer = FALSE /\ session = "watch"
  /\ tracking = "real"
  /\ CardIdle /\ PageIdle /\ HookIdle /\ LinkIdle
  /\ MiddlewareIdle /\ RegistryIdle
NextButtons ==
  \/ \E b \in Buttons : LLMCopyButton(b)
  \/ \E b \in Buttons : \E res \in Responses(buttonUrl[b]) : FetchResolves(b, res)
  \/ \E b \in Buttons : FetchFails(b)
  \/ \E b \in Buttons : ClipboardWritten(b)
  \/ \E b \in Buttons : ClipboardRejects(b)
SpecCopy == InitButtons /\ [][NextButtons]_vars

\* The convenience wrappers of the real hook, called by a page.
NextWrappers ==
  \/ \E f \in Filenames, m \in Methods : CallWrapper(trackDownload(f, m))
  \/ \E m \in Methods : CallWrapper(trackSignup(m))
  \/ \E a \in Amounts, c \in Currencies, t \in ProductTitles :
       CallWrapper(trackPurchase(a, c, t))
  \/ \E path \in MissingPaths : CallWrapper(track404Error(path))
  \/ \E v \in VideoEvents : CallWrapper(videoPlayArgs(v))
  \/ \E v \in VideoEvents : CallWrapper(videoPauseArgs(v))
  \/ \E v \in VideoEvents, m \in MilestoneArgs : CallWrapper(videoProgressArgs(v, m))
  \/ \E v \in VideoEvents : CallWrapper(videoCompleteArgs(v))
SpecWrappers == InitTracking /\ [][NextWrappers]_vars

\* Pages rendering with the component registry.
InitRender ==
  /\ InitRegistry
  /\ InitPlayer /\ videoOk = TRUE /\ hasDataLayer = FALSE /\ session = "watch"
  /\ tracking = "real"
  /\ CardIdle /\ PageIdle /\ HookIdle /\ LinkIdle /\ CopyIdle
  /\ MiddlewareIdle
SpecRegistry == InitRender /\ [][GetMDXComponents]_vars

\* Requests answered by the middleware, redirects followed by the client.
InitRequests ==
  /\ InitMiddleware
  /\ InitPlayer /\ videoOk = TRUE /\ hasDataLayer = FALSE /\ session = "watch"
  /\ tracking = "real"
  /\ CardIdle /\ PageIdle /\ HookIdle /\ LinkIdle /\ CopyIdle
  /\ RegistryIdle
NextRequests ==
  \/ Middleware
  \/ FollowRedirect
SpecMiddleware == InitRequests /\ [][NextRequests]_vars
\* Every request is answered and every redirect is followed.
SpecMiddlewareFair == SpecMiddleware /\ WF_vars(NextRequests)

\* A VideoPlayer wired to the no-op variant of the hook.
InitNoop ==
  /\ InitPlayer
  /\ videoOk \in BOOLEAN
  /\ hasDataLayer \in BOOLEAN
  /\ session \in Sessions
  /\ tracking = "noop"
  /\ CardIdle /\ PageIdle /\ HookIdle /\ LinkIdle /\ CopyIdle
  /\ MiddlewareIdle /\ RegistryIdle
SpecNoop == InitNoop /\ [][NextPlayer]_vars

\* ==================================================================== claims

Milestones == {milestones[i] : i \in DOMAIN milestones}
CurrentView == View(isPlaying, videoOk, mediaError)

\* C1: over any run of one VideoPlayer, the 'Video Play' event and its GTM
\* 'video_start' push are fired at most once, whichever of the delayed callback
\* of handlePlayClick and togglePlayPause played the video.
C1_PlayTrackedAtMostOnce ==
  /\ plausible[VideoPlay] <= 1
  /\ dataLayer[GtmStart] <= 1
\* The event was fired, and afterwards the video was paused, resumed, played to
\* its end and played again.
C1_Witness ==
  /\ plausible[VideoPlay] = 1 /\ ~playTimer
  /\ plausible[VideoPause] >= 1 /\ nEnded >= 1 /\ ~vPaused

\* C2: each milestone 25, 50, 75 has fired its 'Video Progress' event exactly
\* once when progress has reached it, and never fires it a second time.
C2_MilestoneOncePerSession ==
  \A m \in Milestones :
    /\ plausible[VideoProgress(m)] <= 1
    /\ dataLayer[GtmProgress(m)] <= 1
    /\ progress >= m => plausible[VideoProgress(m)] = 1
\* Progress crossed the first threshold twice (a seek backward in between) and
\* is past the last one.
C2_Witness ==
  /\ crossed >= 2 /\ progress >= 75
  /\ \A m \in Milestones : plausible[VideoProgress(m)] = 1

\* C3: isPlaying starts false, and once a poster click has set it no step sets
\* it back: the video view is never left for the poster.
C3_PosterLeftOnce ==
  /\ ~isPlaying
  /\ [][isPlaying => isPlaying' /\ CurrentView' = "video"]_vars
\* The video view after a pause and an ended event.
C3_Witness ==
  /\ isPlaying /\ CurrentView = "video"
  /\ plausible[VideoPause] >= 1 /\ nEnded >= 1

\* C4: for a url of one of the forms youtube.com/watch?v=ID, youtu.be/ID and
\* youtube.com/embed/ID, the id followed by nothing or by '&', '?' or '#' and
\* more text, extractYouTubeId returns ID and the card embeds
\* https://www.youtube.com/embed/ID.
C4_ExtractsId ==
  (/\ card # "none"
   /\ urlParts.form \in NamedForms
   /\ urlParts.id # <<>>
   /\ urlParts.tail \in NamedTails)
  => /\ videoId = <<urlParts.id>>
     /\ card = "iframe"
     /\ embedUrl = EmbedBase \o urlParts.id
\* The first url of the Video Showcase page, an id followed by '?si=...'.
C4_Witness ==
  /\ card = "iframe"
  /\ urlParts = Parts(PrefixHttps, LitShort, IdDemo1, TailDemo1)
  /\ videoId = <<IdDemo1>>

\* C5, as stated: every string that is not a well-formed url of a supported
\* format gives null and the error block.
C5_InvalidUrlGivesNull ==
  (card # "none" /\ ~ValidYouTubeUrl(urlParts))
  => (videoId = <<>> /\ card = "error")
\* C5, amended: every string that contains none of 'youtube.com/watch?',
\* 'youtu.be/' and 'youtube.com/embed/' gives null, the error block and no iframe.
C5_NoMarkerGivesNull ==
  (/\ card # "none"
   /\ ~Occurs(url, LitWatch) /\ ~Occurs(url, LitShort) /\ ~Occurs(url, LitEmbed))
  => (videoId = <<>> /\ card = "error" /\ embedUrl = <<>>)
\* The card of 'not-a-url'.
C5_Witness == card = "error" /\ url = NotAUrl /\ videoId = <<>>

\* C6: for a slug without a page both handlers end in notFound(), with no field
\* of the page read; no request ends in a crash.
C6_MissingPageIs404 ==
  \A h \in Handlers :
    /\ outcome[h] # "crash"
    /\ (outcome[h] # "none" /\ getPage(content, slug) = <<>>)
         => (outcome[h] = "notFound" /\ fieldsRead[h] = 0)
\* Both handlers have answered a request for a slug without a page.
C6_Witness ==
  /\ getPage(content, slug) = <<>> /\ slug # <<>>
  /\ \A h \in Handlers : outcome[h] = "notFound"

\* C7, as stated: when a call of toggleFullscreen is rejected, isFullscreen has
\* the value it had before the call.
C7_KeepsValueBeforeCall ==
  [][consoleErrors' # consoleErrors => isFullscreen' = rejectedBefore'[1]]_vars
\* C7, amended: a rejection is caught and logged, nothing propagates, and the
\* catch block leaves isFullscreen as it was when the rejection arrived.
C7_RejectionCaughtStateKept ==
  [][(consoleErrors' # consoleErrors \/ fsUncaught' # fsUncaught)
       => /\ consoleErrors' = consoleErrors + 1
          /\ fsUncaught' = 0
          /\ isFullscreen' = isFullscreen]_vars
\* A requestFullscreen made outside fullscreen was rejected, and the UI is not
\* fullscreen.
C7_Witness ==
  /\ consoleErrors >= 1 /\ rejectedBefore = <<FALSE>>
  /\ ~isFullscreen /\ fsElement = "none" /\ fsCalls = <<>>

\* C8: the 'Video Complete' event and its GTM 'video_complete' push are fired
\* at most once, however often the video ends.
C8_CompleteTrackedAtMostOnce ==
  /\ plausible[VideoComplete] <= 1
  /\ dataLayer[GtmComplete] <= 1
\* Two ended events were handled.
C8_Witness == nEnded >= 2 /\ plausible[VideoComplete] = 1

\* C9, as stated: no duplicate 'Video Pause' event is fired.
C9_PauseDeduplicated == plausible[VideoPause] <= 1
\* A pause made by togglePlayPause: the playing element is paused where it is
\* (at the end of the video the element pauses itself, with currentTime moved).
PauseToggled == ~vPaused /\ vPaused' /\ vTime' = vTime
\* C9, amended: every pause made by togglePlayPause fires one 'Video Pause'
\* event (and one GTM push when window.dataLayer exists), and nothing else does.
C9_PauseTrackedEveryTime ==
  [][/\ PauseToggled =>
          /\ plausible'[VideoPause] = plausible[VideoPause] + 1
          /\ hasDataLayer => dataLayer'[GtmPause] = dataLayer[GtmPause] + 1
     /\ ~PauseToggled => plausible'[VideoPause] = plausible[VideoPause]]_vars
\* The video was paused twice.
C9_Witness == plausible[VideoPause] = 2 /\ vPaused /\ isPaused

\* C10, as stated: a video that cannot be loaded makes the component render an
\* error message in place of the player.
C10_ErrorShownForBadVideo == (~videoOk /\ mediaError) => CurrentView = "error"
\* C10, amended: the component has no error view; with a video that cannot be
\* loaded it renders the poster and, after the click, the video element.
C10_NoErrorView ==
  /\ CurrentView \in {"poster", "video"}
  /\ isPlaying => CurrentView = "video"
\* The video failed to load after the click, and the callback has run.
C10_Witness == ~videoOk /\ mediaError /\ isPlaying /\ ~playTimer

\* C11: the no-op hook returns every tracking function of the real hook, each
\* of them the function that does nothing; a VideoPlayer wired to it makes no
\* analytics call, and its handlers go on as with the real hook: the play,
\* milestone and completion marks are set and the GTM pushes are made.
C11_NoopHookIsInert ==
  /\ DOMAIN NoopHook = TrackingFunctions
  /\ \A e \in AnalyticsEvents : plausible[e] = 0
  /\ (isPlaying /\ ~playTimer) => hasTrackedPlay
  /\ \A m \in Milestones : progress >= m => m \in trackedMilestones
  /\ nEnded >= 1 => 100 \in trackedMilestones
  /\ hasDataLayer =>
       /\ dataLayer[GtmStart] = (IF hasTrackedPlay THEN 1 ELSE 0)
       /\ dataLayer[GtmComplete] = (IF 100 \in trackedMilestones THEN 1 ELSE 0)
       /\ \A m \in Milestones :
            dataLayer[GtmProgress(m)] = (IF m \in trackedMilestones THEN 1 ELSE 0)
\* Wired to the no-op hook, the video was played, paused, resumed and played
\* to its end past every milestone.
C11_Witness ==
  /\ tracking = "noop" /\ hasDataLayer
  /\ hasTrackedPlay /\ dataLayer[GtmPause] >= 1 /\ nEnded >= 1
  /\ trackedMilestones = {25, 50, 75, 100}

\* C12: a call of trackEvent makes one call to the SDK, with the event name;
\* the options carry props if and only if props was given and revenue if and
\* only if revenue was given, and are undefined when neither was; an error
\* thrown by the SDK reaches the caller.
C12_OneSdkCallWithGivenOptions ==
  [][LET c == lastCall'[1]
         made == sdkCalls'[Len(sdkCalls')]
     IN /\ Len(sdkCalls') = Len(sdkCalls) + 1
        /\ SubSeq(sdkCalls', 1, Len(sdkCalls)) = sdkCalls
        /\ made.name = c.name
        /\ (c.props = <<>> /\ c.revenue = <<>>) <=> made.options = <<>>
        /\ made.options # <<>> =>
             /\ "props" \in DOMAIN made.options[1] <=> c.props # <<>>
             /\ "revenue" \in DOMAIN made.options[1] <=> c.revenue # <<>>
             /\ c.props # <<>> => made.options[1]["props"] = c.props[1]
             /\ c.revenue # <<>> => made.options[1]["revenue"] = c.revenue[1]
        /\ thrown' = thrown + (IF sdkFails THEN 1 ELSE 0)]_vars
\* trackEvent was called with revenue and no props, and the SDK threw.
C12_Witness ==
  /\ sdkFails /\ thrown = 1 /\ Len(sdkCalls) = 1
  /\ lastCall[1].props = <<>> /\ lastCall[1].revenue # <<>>
  /\ DOMAIN sdkCalls[1].options[1] = {"revenue"}

\* C13, as stated: in the ChatGPT, Claude, T3 Chat and Scira AI links the
\* parameter q is the prompt 'Read <U>, I want to ask questions about it.' with
\* U the markdown url resolved against the page origin; the ChatGPT link also
\* carries hints=search; the GitHub link is githubUrl.
C13_LinksCarryPrompt ==
  items # <<>> =>
    /\ \A t \in ChatTitles :
         QueryParam(items[t], KeyQ) = <<q(NewUrl(markdownUrl, origin))>>
    /\ QueryParam(items["ChatGPT"], KeyHints) = <<ValueSearch>>
    /\ items["GitHub"] = githubUrl
\* C13, amended: so it is where there is a window; in a render without one
\* (on the server) U is the word 'loading'.
C13_LinksCarryPromptInBrowser ==
  items # <<>> =>
    /\ \A t \in ChatTitles :
         QueryParam(items[t], KeyQ) =
           <<q(IF hasWindow THEN NewUrl(markdownUrl, origin) ELSE Loading)>>
    /\ QueryParam(items["ChatGPT"], KeyHints) = <<ValueSearch>>
    /\ items["GitHub"] = githubUrl
\* The links of a page whose markdown url holds '&' and a space, in a browser.
C13_Witness ==
  /\ items # <<>> /\ hasWindow
  /\ markdownUrl = <<"/", "&", " ">>
  /\ QueryParam(items["Claude"], KeyQ) = <<q(origin \o <<"/", "&", "%", "2", "0">>)>>

\* C14: whenever the video element is mounted, the isPaused state equals the
\* element's paused flag.
C14_PausedMirrorsElement == (mounted /\ isPlaying) => (isPaused = vPaused)

\* C15: 'Video Play' is the first analytics event fired: no 'Video Pause',
\* 'Video Progress' or 'Video Complete' event has been fired while no
\* 'Video Play' event has.
C15_PlayIsFirstEvent ==
  (\E e \in AnalyticsEvents \ {VideoPlay} : plausible[e] >= 1)
    => plausible[VideoPlay] >= 1

\* C16: the tracked milestones are downward closed within {25, 50, 75}; once
\* handleTimeUpdate has set progress, every milestone up to it is tracked; and
\* the milestone events are fired in ascending order.
C16_MilestonesDownwardClosed ==
  /\ \A m \in Milestones \cap trackedMilestones :
       \A k \in Milestones : k < m => k \in trackedMilestones
  /\ \A m \in Milestones : progress >= m => m \in trackedMilestones
  /\ \A i, j \in DOMAIN progressOrder :
       i < j => progressOrder[i] < progressOrder[j]
\* The video never played: the user sought forward on the progress bar, and
\* the three milestones were fired on the way.
C16_Witness ==
  /\ progressOrder = <<25, 50, 75>> /\ trackedMilestones = {25, 50, 75}
  /\ vPaused /\ vAutoplaying /\ nEnded = 0 /\ ~endedPending /\ ~hasTrackedPlay

\* C17: no step hides the controls in a state where isPaused is true.
C17_ControlsStayWhilePaused ==
  [][(isPaused /\ showControls) => showControls']_vars

\* C18: once the component is unmounted, no analytics event is fired and no
\* GTM push is made.
C18_SilentAfterUnmount ==
  [][~mounted => (plausible' = plausible /\ dataLayer' = dataLayer)]_vars

\* C19: when the fullscreenchange events have been handled and no call of the
\* Fullscreen API is pending, isFullscreen is true only if the player's own
\* container is the document's fullscreen element.
C19_FullscreenOnlyOwnContainer ==
  (mounted /\ isFullscreen /\ ~fsEventPending /\ fsCalls = <<>>)
    => fsElement = "self"

\* C20, as stated: what a button's handler does depends on that button's own
\* history only; so a button that has copied a page has fetched it itself.
C20_NoSharedState ==
  clipboard # <<>> => fetches[clipboard[1].by] >= 1
\* C20, amended: the buttons share the module's cache and nothing else.  A
\* click starts a fetch only when the cache holds no text for the button's url,
\* whichever button put it there; a button that copies without having fetched
\* copies what another button with the same url has fetched; and a button's
\* loading flag changes only in steps of its own handler.
C20_SharedCacheOnly ==
  /\ clipboard = <<>>
  /\ [][/\ \A b \in Buttons :
            /\ fetches'[b] # fetches[b] =>
                 ~(buttonUrl[b] \in DOMAIN cache /\ cache[buttonUrl[b]] # "")
            /\ isLoading'[b] # isLoading[b] => copyPc'[b] # copyPc[b]
        /\ (clipboard' # <<>> /\ fetches'[clipboard'[1].by] = 0) =>
             \E o \in Buttons \ {clipboard'[1].by} :
               /\ buttonUrl[o] = buttonUrl[clipboard'[1].by]
               /\ fetches[o] >= 1
               /\ clipboard'[1].text = cache[buttonUrl[o]]]_vars
\* The second button copied a page that only the first has fetched.
C20_Witness ==
  /\ clipboard # <<>> /\ clipboard[1].by = "second"
  /\ fetches["second"] = 0 /\ fetches["first"] = 1
  /\ buttonUrl["first"] = buttonUrl["second"]

\* C21: once a fetch has stored the text of a url in the cache, a click for
\* that url writes the stored text to the clipboard, makes no fetch and does
\* not enter the loading state, whatever the response body was; and a stored
\* entry is never replaced by a different text.
C21_CachedCopyNeverRefetches ==
  [][/\ \A b \in Buttons :
          (LLMCopyButton(b) /\ buttonUrl[b] \in DOMAIN cache) =>
            /\ clipboard' = <<[by |-> b, text |-> cache[buttonUrl[b]]]>>
            /\ fetches' = fetches
            /\ isLoading' = isLoading
     /\ \A u \in DOMAIN cache : cache'[u] = cache[u]]_vars

\* C22: a button's isLoading is true exactly while its copy after a cache miss
\* is in flight, and only the content of a successfully retrieved page is ever
\* in the cache or copied to the clipboard.
C22_LoadingWhileInFlightAndOnlyPagesCached ==
  /\ \A b \in Buttons : isLoading[b] <=> copyPc[b] # "idle"
  /\ \A u \in DOMAIN cache : cache[u] \in {contentOf(u)} \cup Revised(u)
  /\ clipboard # <<>> =>
       clipboard[1].text \in {contentOf(buttonUrl[clipboard[1].by])}
                               \cup Revised(buttonUrl[clipboard[1].by])

\* C23: a request whose pathname ends in '.mdx' is answered with a 301
\* redirect to the same pathname without that trailing extension, on the same
\* host; every other request is passed through.
C23_TrailingExtensionRemoved ==
  mwResponse.kind # "none" =>
    IF endsWith(pathname, MdxExtension)
      THEN /\ mwResponse.kind = "redirect"
           /\ mwResponse.status = 301
           /\ mwResponse.location.host = host
           /\ mwResponse.location.pathname
                = SubSeq(pathname, 1, Len(pathname) - Len(MdxExtension))
      ELSE mwResponse.kind = "next"

\* C24: following the redirects ends: every redirect target is strictly
\* shorter than the pathname requested, and the request is passed through in
\* the end.
C24_RedirectsTerminate ==
  /\ [][mwResponse.kind = "redirect" => Len(pathname') < Len(pathname)]_vars
  /\ <>(mwResponse.kind = "next")
\* A pathname that was passed through after three redirects.
C24_Witness == mwResponse.kind = "next" /\ hops = 3

\* C25: every wrapper makes one trackEvent call, with its fixed event name:
\* trackDownload sends the filename and the method, 'click' when none is
\* given; trackSignup sends no props when no method is given; trackPurchase
\* sends the revenue {amount, currency}, with 'USD' when no currency is given,
\* and props only when a productTitle is given; trackVideoProgress sends the
\* milestone it was called with.
C25_WrappersMakeOneCall ==
  [][LET c == lastCall'[1]
         made == sdkCalls'[Len(sdkCalls')]
     IN /\ Len(sdkCalls') = Len(sdkCalls) + 1
        /\ SubSeq(sdkCalls', 1, Len(sdkCalls)) = sdkCalls
        /\ made.name = c.name
        /\ \A f \in Filenames, m \in Methods :
             CallWrapper(trackDownload(f, m)) =>
               /\ c.name = "Download" /\ c.revenue = <<>>
               /\ c.props[1].filename = f
               /\ c.props[1].method = (IF m = <<>> THEN "click" ELSE m[1])
               /\ made.options[1]["props"] = c.props[1]
        /\ \A m \in Methods :
             CallWrapper(trackSignup(m)) =>
               /\ c.name = "Signup" /\ c.revenue = <<>>
               /\ m = <<>> => (c.props = <<>> /\ made.options = <<>>)
               /\ c.props # <<>> => (m # <<>> /\ c.props[1].method = m[1])
        /\ \A a \in Amounts, cur \in Currencies, t \in ProductTitles :
             CallWrapper(trackPurchase(a, cur, t)) =>
               /\ c.name = "Purchase"
               /\ c.revenue[1].amount = a
               /\ c.revenue[1].currency = (IF cur = <<>> THEN "USD" ELSE cur[1])
               /\ made.options[1]["revenue"] = c.revenue[1]
               /\ t = <<>> => (c.props = <<>> /\ "props" \notin DOMAIN made.options[1])
               /\ c.props # <<>> => (t # <<>> /\ c.props[1].productTitle = t[1])
        /\ \A path \in MissingPaths :
             CallWrapper(track404Error(path)) => (c.name = "404" /\ c.props[1].path = path)
        /\ \A v \in VideoEvents :
             /\ CallWrapper(videoPlayArgs(v)) => c.name = "Video Play"
             /\ CallWrapper(videoPauseArgs(v)) => c.name = "Video Pause"
             /\ CallWrapper(videoCompleteArgs(v)) => c.name = "Video Complete"
             /\ \A m \in MilestoneArgs :
                  CallWrapper(videoProgressArgs(v, m)) =>
                    /\ c.name = "Video Progress"
                    /\ c.props[1].milestone = m
                    /\ made.options[1]["props"].milestone = m]_vars
\* A download without a method and a purchase without currency or title.
C25_Witness ==
  /\ Len(sdkCalls) = 2
  /\ sdkCalls[1].name = "Download" /\ sdkCalls[1].options[1]["props"].method = "click"
  /\ sdkCalls[2].name = "Purchase"
  /\ sdkCalls[2].options[1]["revenue"].currency = "USD"
  /\ "props" \notin DOMAIN sdkCalls[2].options[1]

\* C26: in the map getMDXComponents returns, every tag the caller supplies is
\* mapped to what the caller supplied; every other tag keeps the registry's
\* mapping: the Twoslash component, else the registry's own img, pre, Tabs or
\* Tab, else the framework default.
C26_CallerWins ==
  mdxComponents # <<>> =>
    LET r == mdxComponents[1]
        c == IF components = <<>> THEN <<>> ELSE components[1]
    IN /\ DOMAIN r = DOMAIN defaultMdxComponents \cup DOMAIN ownComponents
                       \cup DOMAIN Twoslash \cup DOMAIN c
       /\ \A k \in DOMAIN c : r[k] = c[k]
       /\ \A k \in DOMAIN r \ DOMAIN c :
            r[k] = IF k \in DOMAIN Twoslash THEN "twoslash"
                   ELSE IF k \in DOMAIN ownComponents THEN "registry"
                   ELSE "default"
\* The caller supplied pre, Popup and a and nothing else.
C26_Witness ==
  /\ mdxComponents # <<>> /\ components # <<>>
  /\ DOMAIN components[1] = {"pre", "Popup", "a"}
  /\ mdxComponents[1]["pre"] = "caller" /\ mdxComponents[1]["Popup"] = "caller"
  /\ mdxComponents[1]["a"] = "caller" /\ mdxComponents[1]["img"] = "registry"
  /\ mdxComponents[1]["Card"] = "default"

====
